---- MODULE Spec2Model ----
(***************************************************************************)
(* Rivet: the multi-document session manager (tabs, views, dirty           *)
(* tracking, open/save, session restore) modelled from src/src/app.rs,     *)
(* src/src/platform/win32/window.rs and src/src/editor/scintilla/mod.rs.   *)
(*                                                                         *)
(* Indices are 0-based as in the source (active_idx, idx); TLA+ sequences  *)
(* are 1-based, so element i of a Vec v is v[i + 1] (operator At).         *)
(* Byte strings are sequences of numbers 0..255.                           *)
(***************************************************************************)
EXTENDS Integers, Sequences, FiniteSets, TLC

\* ---------------------------------------------------------------- bounds
\* Largest number of tabs the model opens.
MaxTabs == 2
\* Number of distinct file paths the pickers and the session file can name.
NumPaths == 1
\* Number of undo steps a view remembers (older steps are forgotten).
MaxHist == 1
\* Longest text the user types into (typing stops at this length).
MaxLen == 1
\* Number of different file contents the modelled sessions read.
NumFiles == 1
\* Largest number of tabs in the states handle_close_tab(idx) is applied to
\* for every idx (SpecRemoveTab).
MaxCloseTabs == 4
\* Longest document, needle and replacement of the exhaustive find / replace
\* inputs (SpecSearch).
MaxDocLen == 4
MaxNeedleLen == 2
MaxReplLen == 2
\* Length of the byte sequences the codec functions are applied to (after the
\* byte-order mark, for UTF-16 input).
MaxBytes == 4
\* Largest number of entries of the snapshots SpecRestore restores, and the
\* number of distinct paths they name.
MaxSnapshot == 3
NumSnapshotPaths == 2

\* ------------------------------------------------------ program constants
\* editor/mod.rs: 50 MiB in the source; scaled down to 3 bytes here so that
\* files below, at and above the threshold all occur among SampleFiles.
LARGE_FILE_THRESHOLD_BYTES == 3

\* Option<PathBuf>: None is the empty tuple, a path is <<directory, file name>>.
\* Paths 2k-1 and 2k are the same file name in two directories.
None == <<>>
PathOf(i) == <<(i + 1) % 2, (i + 1) \div 2>>
Paths == { PathOf(i) : i \in 1 .. NumPaths }

Utf8 == "Utf8"
Utf16Le == "Utf16Le"
Utf16Be == "Utf16Be"
Ansi == "Ansi"
Crlf == "Crlf"
Lf == "Lf"
Cr == "Cr"

At(s, i) == s[i + 1]
RemoveAt(s, i) == SubSeq(s, 1, i) \o SubSeq(s, i + 2, Len(s))
Min(a, b) == IF a < b THEN a ELSE b

\* ------------------------------------------------------------------ codec
\* str::from_utf8 / Utf8Chunks: one step of UTF-8 decoding at 1-based
\* position i.  ok: a scalar value cp of len bytes; otherwise an invalid
\* subpart of len bytes (the lead byte and the continuation bytes accepted
\* before the failure).
Byte(b, i) == IF i <= Len(b) THEN b[i] ELSE 0
IsCont(x) == x >= 128 /\ x <= 191
Utf8Step(b, i) ==
    LET b0 == b[i]
        b1 == Byte(b, i + 1)
        b2 == Byte(b, i + 2)
        b3 == Byte(b, i + 3)
        bad(n) == [ok |-> FALSE, len |-> n, cp |-> 65533]
        good(n, c) == [ok |-> TRUE, len |-> n, cp |-> c]
    IN  IF b0 < 128 THEN good(1, b0)
        ELSE IF b0 >= 194 /\ b0 <= 223 THEN
            IF IsCont(b1) THEN good(2, (b0 - 192) * 64 + (b1 - 128)) ELSE bad(1)
        ELSE IF b0 >= 224 /\ b0 <= 239 THEN
            IF ~ (\/ b0 = 224 /\ b1 >= 160 /\ b1 <= 191
                  \/ b0 >= 225 /\ b0 <= 236 /\ IsCont(b1)
                  \/ b0 = 237 /\ b1 >= 128 /\ b1 <= 159
                  \/ b0 >= 238 /\ IsCont(b1))
            THEN bad(1)
            ELSE IF ~ IsCont(b2) THEN bad(2)
            ELSE good(3, (b0 - 224) * 4096 + (b1 - 128) * 64 + (b2 - 128))
        ELSE IF b0 >= 240 /\ b0 <= 244 THEN
            IF ~ (\/ b0 = 240 /\ b1 >= 144 /\ b1 <= 191
                  \/ b0 >= 241 /\ b0 <= 243 /\ IsCont(b1)
                  \/ b0 = 244 /\ b1 >= 128 /\ b1 <= 143)
            THEN bad(1)
            ELSE IF ~ IsCont(b2) THEN bad(2)
            ELSE IF ~ IsCont(b3) THEN bad(3)
            ELSE good(4, (b0 - 240) * 262144 + (b1 - 128) * 4096
                         + (b2 - 128) * 64 + (b3 - 128))
        ELSE bad(1)

\* std::str::from_utf8(bytes).is_ok()
RECURSIVE Utf8ValidFrom(_, _)
Utf8ValidFrom(b, i) ==
    IF i > Len(b) THEN TRUE
    ELSE LET s == Utf8Step(b, i)
         IN  s.ok /\ Utf8ValidFrom(b, i + s.len)
from_utf8_is_ok(b) == Utf8ValidFrom(b, 1)

\* String::from_utf8_lossy: the scalar values, U+FFFD for each invalid subpart.
RECURSIVE Utf8LossyFrom(_, _)
Utf8LossyFrom(b, i) ==
    IF i > Len(b) THEN <<>>
    ELSE LET s == Utf8Step(b, i)
         IN  <<s.cp>> \o Utf8LossyFrom(b, i + s.len)
from_utf8_lossy(b) == Utf8LossyFrom(b, 1)

\* The UTF-8 bytes of one scalar value (String::into_bytes).
Utf8Encode(c) ==
    IF c < 128 THEN <<c>>
    ELSE IF c < 2048 THEN <<192 + (c \div 64), 128 + (c % 64)>>
    ELSE IF c < 65536 THEN
        <<224 + (c \div 4096), 128 + ((c \div 64) % 64), 128 + (c % 64)>>
    ELSE <<240 + (c \div 262144), 128 + ((c \div 4096) % 64),
           128 + ((c \div 64) % 64), 128 + (c % 64)>>

RECURSIVE into_bytes(_)
into_bytes(cps) ==
    IF cps = <<>> THEN <<>> ELSE Utf8Encode(Head(cps)) \o into_bytes(Tail(cps))

\* payload.chunks_exact(2).map(u16::from_le_bytes / from_be_bytes): a
\* trailing odd byte is dropped.
RECURSIVE chunks_exact_units(_, _)
chunks_exact_units(p, le) ==
    IF Len(p) < 2 THEN <<>>
    ELSE <<IF le THEN p[1] + 256 * p[2] ELSE 256 * p[1] + p[2]>>
         \o chunks_exact_units(SubSeq(p, 3, Len(p)), le)

\* String::from_utf16_lossy: unpaired surrogates become U+FFFD.
IsHigh(u) == u >= 55296 /\ u <= 56319
IsLow(u) == u >= 56320 /\ u <= 57343
RECURSIVE from_utf16_lossy(_)
from_utf16_lossy(u) ==
    IF u = <<>> THEN <<>>
    ELSE IF IsHigh(u[1]) /\ Len(u) >= 2 /\ IsLow(u[2]) THEN
        <<65536 + (u[1] - 55296) * 1024 + (u[2] - 56320)>>
        \o from_utf16_lossy(SubSeq(u, 3, Len(u)))
    ELSE IF IsHigh(u[1]) \/ IsLow(u[1]) THEN
        <<65533>> \o from_utf16_lossy(Tail(u))
    ELSE <<u[1]>> \o from_utf16_lossy(Tail(u))

\* str::encode_utf16 followed by to_le_bytes / to_be_bytes of every unit.
UnitBytes(u, le) == IF le THEN <<u % 256, u \div 256>> ELSE <<u \div 256, u % 256>>
RECURSIVE encode_utf16_bytes(_, _)
encode_utf16_bytes(cps, le) ==
    IF cps = <<>> THEN <<>>
    ELSE LET c == Head(cps)
             rest == encode_utf16_bytes(Tail(cps), le)
         IN  IF c < 65536 THEN UnitBytes(c, le) \o rest
             ELSE UnitBytes(55296 + ((c - 65536) \div 1024), le)
                  \o UnitBytes(56320 + ((c - 65536) % 1024), le) \o rest

starts_with(b, p) == Len(b) >= Len(p) /\ SubSeq(b, 1, Len(p)) = p

\* The UTF-8 validity check comes before the check for the UTF-8 marker.
DetectValidUtf8First(bytes) ==
    IF starts_with(bytes, <<255, 254>>) THEN
        <<Utf16Le, into_bytes(from_utf16_lossy(
                       chunks_exact_units(SubSeq(bytes, 3, Len(bytes)), TRUE)))>>
    ELSE IF starts_with(bytes, <<254, 255>>) THEN
        <<Utf16Be, into_bytes(from_utf16_lossy(
                       chunks_exact_units(SubSeq(bytes, 3, Len(bytes)), FALSE)))>>
    ELSE IF from_utf8_is_ok(bytes) THEN <<Utf8, bytes>>
    ELSE IF starts_with(bytes, <<239, 187, 191>>) THEN
        <<Utf8, SubSeq(bytes, 4, Len(bytes))>>
    ELSE <<Ansi, bytes>>

\* App::detect_and_decode: <<encoding, utf8 bytes>>.
detect_and_decode(bytes) ==
    IF starts_with(bytes, <<255, 254>>) THEN
        <<Utf16Le, into_bytes(from_utf16_lossy(
                       chunks_exact_units(SubSeq(bytes, 3, Len(bytes)), TRUE)))>>
    ELSE IF starts_with(bytes, <<254, 255>>) THEN
        <<Utf16Be, into_bytes(from_utf16_lossy(
                       chunks_exact_units(SubSeq(bytes, 3, Len(bytes)), FALSE)))>>
    ELSE IF starts_with(bytes, <<239, 187, 191>>) THEN
        <<Utf8, SubSeq(bytes, 4, Len(bytes))>>
    ELSE IF from_utf8_is_ok(bytes) THEN <<Utf8, bytes>>
    ELSE <<Ansi, bytes>>

\* App::detect_eol: one forward scan; counts are <<crlf, lf, cr>>.
RECURSIVE EolCounts(_, _)
EolCounts(u, i) ==
    IF i > Len(u) THEN <<0, 0, 0>>
    ELSE IF u[i] = 13 /\ i + 1 <= Len(u) /\ u[i + 1] = 10 THEN
        LET r == EolCounts(u, i + 2) IN <<r[1] + 1, r[2], r[3]>>
    ELSE IF u[i] = 13 THEN
        LET r == EolCounts(u, i + 1) IN <<r[1], r[2], r[3] + 1>>
    ELSE IF u[i] = 10 THEN
        LET r == EolCounts(u, i + 1) IN <<r[1], r[2] + 1, r[3]>>
    ELSE EolCounts(u, i + 1)

\* Every LF byte counts as an LF, also the one of a CR LF pair.
DetectEolCountsLfBytes(utf8) ==
    IF EolCounts(utf8, 1)[1] >= EolCounts(utf8, 1)[2] + EolCounts(utf8, 1)[1]
       /\ EolCounts(utf8, 1)[1] >= EolCounts(utf8, 1)[3] THEN Crlf
    ELSE IF EolCounts(utf8, 1)[2] + EolCounts(utf8, 1)[1] >= EolCounts(utf8, 1)[3] THEN Lf
    ELSE Cr

detect_eol(utf8) ==
    LET c == EolCounts(utf8, 1)
        crlf == c[1]
        lf == c[2]
        cr == c[3]
    IN  IF crlf >= lf /\ crlf >= cr THEN Crlf
        ELSE IF lf >= cr THEN Lf
        ELSE Cr

\* App::encode_for_disk, with the document's encoding passed explicitly.
encode_for_disk(encoding, utf8) ==
    IF encoding = Utf16Le THEN
        <<255, 254>> \o encode_utf16_bytes(from_utf8_lossy(utf8), TRUE)
    ELSE IF encoding = Utf16Be THEN
        <<254, 255>> \o encode_utf16_bytes(from_utf8_lossy(utf8), FALSE)
    ELSE utf8

\* ------------------------------------------------------- the environment
\* Contents a file on disk may have when it is read (std::fs::read).
FileSeq ==
    << <<255, 254, 10, 0>>,     \* UTF-16 LE BOM + "\n": 4 bytes, above the threshold
       <<97, 0, 98>>,           \* "a", NUL, "b": 3 bytes, exactly the threshold
       <<128>>,                 \* invalid UTF-8: ANSI
       <<>> >>                  \* the empty file
SampleFiles == { FileSeq[i] : i \in 1 .. Len(FileSeq) }
\* The contents the files of the modelled sessions have: the first NumFiles.
CoreFiles == { FileSeq[i] : i \in 1 .. Min(NumFiles, Len(FileSeq)) }
\* std::fs::read returned Err (not a byte string).
ReadErr == <<-1>>
\* The byte the user types ("x").
TypedByte == 120

\* Path::file_name
file_name(p) == <<"file", p[2]>>

\* ------------------------------------------------------- Scintilla (view)
\* A view is the Scintilla child window: its handle, its undo history (the
\* document text after each remembered step), the current step, the step
\* that is the save point (0: not reachable by undo/redo), its EOL mode,
\* its wrap mode and whether the window is shown.
ViewText(v) == v.hist[v.cur]
AtSavePoint(v) == v.save = v.cur

\* ScintillaView::create: hidden, empty, at its save point, SC_EOL_CRLF.
NewView(h) ==
    [hwnd |-> h, hist |-> <<<<>>>>, cur |-> 1, save |-> 1,
     eol_mode |-> Crlf, wrap |-> FALSE, visible |-> FALSE]

\* The text SCI_SETTEXT receives: a C string, it ends at the first NUL.
RECURSIVE CStr(_)
CStr(b) == IF b = <<>> \/ Head(b) = 0 THEN <<>> ELSE <<Head(b)>> \o CStr(Tail(b))

\* One undoable modification of the document: the redo steps are dropped,
\* a save point among them becomes unreachable, and only the last MaxHist
\* undo steps are kept.  Raises SCN_SAVEPOINTLEFT when it leaves the save point.
SciModify(v, text) ==
    LET h1 == SubSeq(v.hist, 1, v.cur) \o <<text>>
        s1 == IF v.save > v.cur THEN 0 ELSE v.save
        over == Len(h1) > MaxHist + 1
    IN  [view |-> [v EXCEPT !.hist = IF over THEN Tail(h1) ELSE h1,
                            !.cur = IF over THEN v.cur ELSE v.cur + 1,
                            !.save = IF over THEN (IF s1 <= 1 THEN 0 ELSE s1 - 1)
                                     ELSE s1],
         notes |-> IF AtSavePoint(v) THEN <<"SCN_SAVEPOINTLEFT">> ELSE <<>>]

\* SCI_SETTEXT: delete everything, insert the C string; nothing happens when
\* both the document and the new text are empty.
SCI_SETTEXT(v, text) ==
    IF ViewText(v) = <<>> /\ CStr(text) = <<>>
    THEN [view |-> v, notes |-> <<>>]
    ELSE SciModify(v, CStr(text))

\* SCI_SETSAVEPOINT: the current step becomes the save point; always notifies.
SCI_SETSAVEPOINT(v) ==
    [view |-> [v EXCEPT !.save = v.cur], notes |-> <<"SCN_SAVEPOINTREACHED">>]

\* WM_UNDO / SCI_REDO: move one step; notify on leaving / reaching the save point.
SciMove(v, to) ==
    [view |-> [v EXCEPT !.cur = to],
     notes |-> IF AtSavePoint(v) THEN <<"SCN_SAVEPOINTLEFT">>
               ELSE IF v.save = to THEN <<"SCN_SAVEPOINTREACHED">>
               ELSE <<>>]

\* ------------------------------------------------------- DocumentState
\* view_of is a history field, not in the source: the handle of the view
\* that was created together with this document.
new_untitled(h) ==
    [path |-> None, encoding |-> Utf8, eol |-> Crlf, dirty |-> FALSE,
     large_file |-> FALSE, word_wrap |-> FALSE, view_of |-> h]

display_name(doc) == IF doc.path = None THEN <<"Untitled">> ELSE file_name(doc.path)

\* ui::tabs::tab_label
tab_label(doc) ==
    IF doc.dirty THEN <<"*", display_name(doc)>> ELSE <<display_name(doc)>>

\* The dirty marker is left out.
WindowTitleNoDirtyMarker(doc) ==
    IF doc.path = None /\ ~ doc.dirty THEN <<"Rivet">>
    ELSE <<"", display_name(doc), "-", "Rivet">>

\* App::window_title for the active document.
window_title(doc) ==
    IF doc.path = None /\ ~ doc.dirty THEN <<"Rivet">>
    ELSE <<IF doc.dirty THEN "*" ELSE "", display_name(doc), "-", "Rivet">>

\* ------------------------------------------------------- WindowState
\* The handlers below are functions of the window state st =
\* [tabs, active_idx, sci_views, tab_items, title, wrap_check, wrote]:
\* app.tabs, app.active_idx, sci_views, the labels shown by the tab control,
\* the text of the title bar, the View > Word Wrap checkmark and the files
\* written by the handler that is running (path, bytes).
active_doc(st) == At(st.tabs, st.active_idx)
tab_count(st) == Len(st.tabs)

sync_tab_label(st, idx) ==
    [st EXCEPT !.tab_items[idx + 1] = tab_label(At(st.tabs, idx))]

update_window_title(st) == [st EXCEPT !.title = window_title(active_doc(st))]

update_wrap_checkmark(st, wrap) == [st EXCEPT !.wrap_check = wrap]

show(st, idx, visible) == [st EXCEPT !.sci_views[idx + 1].visible = visible]

\* The title bar is not refreshed.
SavePointLeftStaleTitle(st) ==
    sync_tab_label([st EXCEPT !.tabs[st.active_idx + 1].dirty = TRUE], st.active_idx)

\* wnd_proc, WM_NOTIFY: the save-point notifications act on the ACTIVE document.
SCN_SAVEPOINTLEFT(st) ==
    LET s1 == [st EXCEPT !.tabs[st.active_idx + 1].dirty = TRUE]
    IN  update_window_title(sync_tab_label(s1, s1.active_idx))

\* The notification is dropped.
SavePointReachedIgnored(st) == st

SCN_SAVEPOINTREACHED(st) ==
    LET s1 == [st EXCEPT !.tabs[st.active_idx + 1].dirty = FALSE]
    IN  update_window_title(sync_tab_label(s1, s1.active_idx))

\* wnd_proc, WM_NOTIFY / SCN_UPDATEUI: re-read the view's EOL mode.
SCN_UPDATEUI(st) ==
    [st EXCEPT !.tabs[st.active_idx + 1].eol = At(st.sci_views, st.active_idx).eol_mode]

\* SendMessageW from Scintilla to the parent: the notifications a view
\* raises run wnd_proc synchronously, inside the call that caused them.
RECURSIVE Notify(_, _)
Notify(st, notes) ==
    IF notes = <<>> THEN st
    ELSE Notify(IF Head(notes) = "SCN_SAVEPOINTLEFT" THEN SCN_SAVEPOINTLEFT(st)
                ELSE SCN_SAVEPOINTREACHED(st),
                Tail(notes))

\* A call on view idx: the view changes, then its notifications are handled.
SciCall(st, idx, r) == Notify([st EXCEPT !.sci_views[idx + 1] = r.view], r.notes)

set_text(st, idx, text) == SciCall(st, idx, SCI_SETTEXT(At(st.sci_views, idx), text))
set_save_point(st, idx) == SciCall(st, idx, SCI_SETSAVEPOINT(At(st.sci_views, idx)))
get_text(st, idx) == ViewText(At(st.sci_views, idx))
set_eol_mode(st, idx, eol) == [st EXCEPT !.sci_views[idx + 1].eol_mode = eol]
set_word_wrap(st, idx, on) == [st EXCEPT !.sci_views[idx + 1].wrap = on]
\* set_large_file_mode(true) switches wrapping off; (false) does nothing.
set_large_file_mode(st, idx, enable) ==
    IF enable THEN [st EXCEPT !.sci_views[idx + 1].wrap = FALSE] ELSE st

\* ------------------------------------------------------- App (tab list)
\* App::push_untitled: append a fresh untitled document; its index is the
\* previous length.
push_untitled(st, h) == [st EXCEPT !.tabs = Append(st.tabs, new_untitled(h))]

\* App::remove_tab: remove tabs[idx]; an active index after idx moves down
\* by one, and is clamped to the new last index.
remove_tab(st, idx) ==
    LET n == Len(st.tabs) - 1
        a1 == IF idx < st.active_idx THEN st.active_idx - 1 ELSE st.active_idx
    IN  [st EXCEPT !.tabs = RemoveAt(st.tabs, idx),
                   !.active_idx = IF a1 >= n THEN n - 1 ELSE a1]

\* The document is committed before the write is known to have succeeded.
SaveCommitsFirst(st, path, utf8, write_ok) ==
    [ok |-> write_ok,
     st |-> [st EXCEPT !.wrote = IF write_ok
                                 THEN Append(st.wrote,
                                        <<path, encode_for_disk(active_doc(st).encoding, utf8)>>)
                                 ELSE st.wrote,
                       !.tabs[st.active_idx + 1].path = path,
                       !.tabs[st.active_idx + 1].dirty = FALSE]]

\* App::save: [ok, st].  std::fs::write(&path, encode_for_disk(utf8))?
\* returns on Err before the document is touched; on Ok path and dirty of
\* the active document are set.  write_ok: std::fs::write succeeded.
save(st, path, utf8, write_ok) ==
    IF ~ write_ok THEN [ok |-> FALSE, st |-> st]
    ELSE [ok |-> TRUE,
          st |-> [st EXCEPT !.wrote = Append(st.wrote,
                                <<path, encode_for_disk(active_doc(st).encoding, utf8)>>),
                            !.tabs[st.active_idx + 1].path = path,
                            !.tabs[st.active_idx + 1].dirty = FALSE]]

\* App::open_file: the new state of the active document (the returned UTF-8
\* content is detect_and_decode(bytes)[2]).
open_file(st, path, bytes) ==
    LET dd == detect_and_decode(bytes)
    IN  [st EXCEPT !.tabs[st.active_idx + 1].large_file =
                        (Len(bytes) > LARGE_FILE_THRESHOLD_BYTES),
                   !.tabs[st.active_idx + 1].dirty = FALSE,
                   !.tabs[st.active_idx + 1].encoding = dd[1],
                   !.tabs[st.active_idx + 1].eol = detect_eol(dd[2]),
                   !.tabs[st.active_idx + 1].path = path]

\* ------------------------------------------------------- window.rs handlers
\* A window handle no live view uses (CreateWindowExW).
FreshHwnd(st) ==
    CHOOSE h \in 1 .. Len(st.sci_views) + 1 :
        /\ \A i \in 1 .. Len(st.sci_views) : st.sci_views[i].hwnd # h
        /\ \A g \in 1 .. h - 1 : \E i \in 1 .. Len(st.sci_views) : st.sci_views[i].hwnd = g

\* tab_insert: a new item at the end of the tab strip.
tab_insert(st, label) == [st EXCEPT !.tab_items = Append(st.tab_items, label)]

\* The outgoing view is not hidden.
ActivateViewKeepsOutgoing(st, new_idx) ==
    [show([st EXCEPT !.active_idx = new_idx], new_idx, TRUE)
        EXCEPT !.tabs[new_idx + 1].eol = At(st.sci_views, new_idx).eol_mode]

\* The tab-activation sequence shared by TCN_SELCHANGE, the de-dup branch of
\* handle_file_open and the end of restore_session: hide, switch, show,
\* re-read the EOL mode.
ActivateView(st, new_idx) ==
    LET s1 == show(st, st.active_idx, FALSE)
        s2 == [s1 EXCEPT !.active_idx = new_idx]
        s3 == show(s2, new_idx, TRUE)
    IN  [s3 EXCEPT !.tabs[new_idx + 1].eol = At(s3.sci_views, new_idx).eol_mode]

\* wnd_proc, WM_NOTIFY / TCN_SELCHANGE
TCN_SELCHANGE(st, new_idx) ==
    IF new_idx # st.active_idx
    THEN LET s1 == ActivateView(st, new_idx)
             s2 == update_wrap_checkmark(s1, active_doc(s1).word_wrap)
         IN  update_window_title(s2)
    ELSE st

\* The view of a document app.open_file has just filled: large-file mode,
\* EOL mode, word wrap off, the decoded text, the save point (s: the state
\* after app.open_file, idx = s.active_idx).
ConfigureView(s, idx, utf8) ==
    set_save_point(
        set_text(
            set_word_wrap(
                set_eol_mode(
                    set_large_file_mode(s, idx, active_doc(s).large_file),
                    idx, active_doc(s).eol),
                idx, FALSE),
            idx, utf8),
        idx)

load_file_into_active_tab(st, path, bytes) ==
    update_window_title(
        sync_tab_label(
            ConfigureView(open_file(st, path, bytes), st.active_idx,
                          detect_and_decode(bytes)[2]),
            st.active_idx))

\* The common start of open_file_in_new_tab and open_untitled_tab: hide the
\* current view, push the document (new_idx = its index), push the view h,
\* activate new_idx, insert the tab item.
PushView(s, h) ==
    [s EXCEPT !.sci_views = Append(s.sci_views, NewView(h)),
              !.active_idx = Len(s.tabs) - 1]

PushTab(st) ==
    tab_insert(PushView(push_untitled(show(st, st.active_idx, FALSE), FreshHwnd(st)),
                        FreshHwnd(st)),
               <<<<"Untitled">>>>)

\* open_file_in_new_tab after the push (s: the state with the new tab
\* active).
LoadPushed(s, path, bytes) ==
    update_window_title(
        show(sync_tab_label(
                 ConfigureView(open_file(s, path, bytes), s.active_idx,
                               detect_and_decode(bytes)[2]),
                 s.active_idx),
             s.active_idx, TRUE))

\* The current view is hidden before the new view is known to exist.
OpenFileInNewTabHidesFirst(st, path, bytes, view_ok) ==
    IF ~ view_ok THEN show(st, st.active_idx, FALSE)
    ELSE LoadPushed(PushTab(st), path, bytes)

\* view_ok: new_scintilla_view returned Some.
open_file_in_new_tab(st, path, bytes, view_ok) ==
    IF ~ view_ok THEN st ELSE LoadPushed(PushTab(st), path, bytes)

\* open_untitled_tab after the push.
ShowPushed(s) == update_window_title(show(s, s.active_idx, TRUE))

open_untitled_tab(st, view_ok) ==
    IF ~ view_ok THEN st ELSE ShowPushed(PushTab(st))

\* File > New opens a tab whatever the active document is.
HandleNewFileAlways(st, view_ok) == open_untitled_tab(st, view_ok)

handle_new_file(st, view_ok) ==
    IF active_doc(st).path = None /\ ~ active_doc(st).dirty THEN st
    ELSE open_untitled_tab(st, view_ok)

\* tabs.iter().position(|t| t.path == Some(path)): the first such index, or -1.
PositionOfPath(st, path) ==
    IF \E i \in 0 .. Len(st.tabs) - 1 : At(st.tabs, i).path = path
    THEN CHOOSE i \in 0 .. Len(st.tabs) - 1 :
            /\ At(st.tabs, i).path = path
            /\ \A j \in 0 .. i - 1 : At(st.tabs, j).path # path
    ELSE -1

\* The path is not looked up among the open tabs.
HandleFileOpenNoDedup(st, picked, read, view_ok) ==
    IF picked = None \/ read = ReadErr THEN st
    ELSE IF active_doc(st).path = None /\ ~ active_doc(st).dirty
         THEN load_file_into_active_tab(st, picked, read)
         ELSE open_file_in_new_tab(st, picked, read, view_ok)

\* A failed read is taken for an empty file.
HandleFileOpenReadErrLoads(st, picked, read, view_ok) ==
    IF picked = None THEN st
    ELSE IF PositionOfPath(st, picked) >= 0 THEN
             IF PositionOfPath(st, picked) # st.active_idx
             THEN update_window_title(ActivateView(st, PositionOfPath(st, picked)))
             ELSE st
         ELSE IF active_doc(st).path = None /\ ~ active_doc(st).dirty
              THEN load_file_into_active_tab(st, picked, IF read = ReadErr THEN <<>> ELSE read)
              ELSE open_file_in_new_tab(st, picked, IF read = ReadErr THEN <<>> ELSE read,
                                        view_ok)

\* The file always goes into a new tab, whatever the active document is.
HandleFileOpenAlwaysNewTab(st, picked, read, view_ok) ==
    IF picked = None THEN st
    ELSE IF PositionOfPath(st, picked) >= 0 THEN
             IF PositionOfPath(st, picked) # st.active_idx
             THEN update_window_title(ActivateView(st, PositionOfPath(st, picked)))
             ELSE st
         ELSE IF read = ReadErr THEN st
         ELSE open_file_in_new_tab(st, picked, read, view_ok)

\* picked: the result of show_open_dialog (None: cancelled); read: the
\* result of std::fs::read.
handle_file_open(st, picked, read, view_ok) ==
    IF picked = None THEN st
    ELSE LET dup_idx == PositionOfPath(st, picked)
         IN  IF dup_idx >= 0 THEN
                 IF dup_idx # st.active_idx
                 THEN update_window_title(ActivateView(st, dup_idx))
                 ELSE st
             ELSE IF read = ReadErr THEN st
             ELSE IF active_doc(st).path = None /\ ~ active_doc(st).dirty
                  THEN load_file_into_active_tab(st, picked, read)
                  ELSE open_file_in_new_tab(st, picked, read, view_ok)

\* picked: the result of show_save_dialog; write_ok: std::fs::write succeeded.
\* The view's save point is not marked after the write.
HandleFileSaveNoSavePoint(st, force_dialog, picked, write_ok) ==
    LET ask == force_dialog \/ active_doc(st).path = None
        path == IF ask THEN picked ELSE active_doc(st).path
        idx == st.active_idx
        r == save(st, path, get_text(st, idx), write_ok)
    IN  IF ask /\ picked = None THEN st
        ELSE IF r.ok THEN update_window_title(sync_tab_label(r.st, idx))
             ELSE r.st

handle_file_save(st, force_dialog, picked, write_ok) ==
    LET ask == force_dialog \/ active_doc(st).path = None
        path == IF ask THEN picked ELSE active_doc(st).path
        idx == st.active_idx
        r == save(st, path, get_text(st, idx), write_ok)
    IN  IF ask /\ picked = None THEN st
        ELSE IF r.ok
             THEN update_window_title(sync_tab_label(set_save_point(r.st, idx), idx))
             ELSE r.st

\* save_tab_for_close: [ok, st].  App::save acts on the active document, so
\* active_idx is pointed at idx, and put back only when the write fails.
save_tab_for_close(st, idx, picked, write_ok) ==
    LET has_path == At(st.tabs, idx).path # None
        path == IF has_path THEN At(st.tabs, idx).path ELSE picked
        r == save([st EXCEPT !.active_idx = idx], path, get_text(st, idx), write_ok)
    IN  IF ~ has_path /\ picked = None THEN [ok |-> FALSE, st |-> st]
        ELSE IF r.ok
             THEN [ok |-> TRUE, st |-> sync_tab_label(set_save_point(r.st, idx), idx)]
             ELSE [ok |-> FALSE, st |-> [r.st EXCEPT !.active_idx = st.active_idx]]

\* The last tab is removed like any other.
ResetLastTabRemoves(st) ==
    [st EXCEPT !.tabs = <<>>, !.sci_views = <<>>, !.tab_items = <<>>]

\* The emptied view is not marked as saved.
ResetLastTabNoSavePoint(st) ==
    update_window_title(
        sync_tab_label(
            update_wrap_checkmark(
                set_text(
                    set_word_wrap(
                        set_eol_mode(
                            [st EXCEPT !.tabs[1].path = None,
                                       !.tabs[1].dirty = FALSE,
                                       !.tabs[1].large_file = FALSE,
                                       !.tabs[1].encoding = Utf8,
                                       !.tabs[1].eol = Crlf,
                                       !.tabs[1].word_wrap = FALSE],
                            0, Crlf),
                        0, FALSE),
                    0, <<>>),
                FALSE),
            0))

\* handle_close_tab, "Last tab": reset the only tab to untitled.
ResetLastTab(st) ==
    LET s1 == [st EXCEPT !.tabs[1].path = None,
                         !.tabs[1].dirty = FALSE,
                         !.tabs[1].large_file = FALSE,
                         !.tabs[1].encoding = Utf8,
                         !.tabs[1].eol = Crlf,
                         !.tabs[1].word_wrap = FALSE]
        s2 == set_eol_mode(s1, 0, Crlf)
        s3 == set_word_wrap(s2, 0, FALSE)
        s4 == set_text(s3, 0, <<>>)
        s5 == set_save_point(s4, 0)
        s6 == update_wrap_checkmark(s5, FALSE)
        s7 == sync_tab_label(s6, 0)
    IN  update_window_title(s7)

\* The view is destroyed but stays in sci_views.
RemoveTabKeepsView(st, idx) ==
    LET s2 == [st EXCEPT !.tab_items = RemoveAt(st.tab_items, idx)]
        s3 == remove_tab(s2, idx)
    IN  update_window_title(s3)

\* active_idx is not taken from App::remove_tab.
RemoveTabStaleActive(st, idx) ==
    [st EXCEPT !.sci_views = RemoveAt(st.sci_views, idx),
               !.tab_items = RemoveAt(st.tab_items, idx),
               !.tabs = RemoveAt(st.tabs, idx)]

\* The tab at the closed position is activated, whatever App::remove_tab
\* returned.
RemoveTabActivatesNeighbour(st, idx) ==
    update_window_title(
        [st EXCEPT !.sci_views = RemoveAt(st.sci_views, idx),
                   !.tab_items = RemoveAt(st.tab_items, idx),
                   !.tabs = RemoveAt(st.tabs, idx),
                   !.active_idx = Min(idx, Len(st.tabs) - 2)])

\* handle_close_tab, "Remove the tab": destroy and remove the view, delete
\* the tab item, remove the document, show the new active view.
RemoveTab(st, idx) ==
    LET was_active == (idx = st.active_idx)
        s1 == [st EXCEPT !.sci_views = RemoveAt(st.sci_views, idx)]
        s2 == [s1 EXCEPT !.tab_items = RemoveAt(s1.tab_items, idx)]
        s3 == remove_tab(s2, idx)
        s4 == IF was_active THEN show(s3, s3.active_idx, TRUE) ELSE s3
    IN  update_window_title(s4)

\* The result of save_tab_for_close is not looked at.
HandleCloseIgnoresSaveResult(st, idx, answer, picked, write_ok) ==
    LET close(s) == IF tab_count(s) = 1 THEN ResetLastTab(s) ELSE RemoveTab(s, idx)
    IN  IF At(st.tabs, idx).dirty THEN
            IF answer = "IDYES"
            THEN close(save_tab_for_close(st, idx, picked, write_ok).st)
            ELSE IF answer = "IDNO" THEN close(st)
            ELSE st
        ELSE close(st)

\* answer: the MessageBoxW result for a dirty tab (IDYES, IDNO, IDCANCEL).
handle_close_tab(st, idx, answer, picked, write_ok) ==
    LET close(s) == IF tab_count(s) = 1 THEN ResetLastTab(s) ELSE RemoveTab(s, idx)
    IN  IF At(st.tabs, idx).dirty THEN
            IF answer = "IDYES" THEN
                LET r == save_tab_for_close(st, idx, picked, write_ok)
                IN  IF r.ok THEN close(r.st) ELSE r.st
            ELSE IF answer = "IDNO" THEN close(st)
            ELSE st
        ELSE close(st)

\* restore_session, the loop over sf.tabs from entry i on.  env[i] is what
\* the file system and CreateWindowExW answer for entry i: read (ReadErr
\* when the path does not exist or cannot be read) and view_ok.
RECURSIVE RestoreLoop(_, _, _, _, _)
RestoreLoop(st, entries, env, i, opened_any) ==
    IF i > Len(entries) THEN [st |-> st, opened_any |-> opened_any]
    ELSE IF entries[i] = None \/ env[i].read = ReadErr
         THEN RestoreLoop(st, entries, env, i + 1, opened_any)
    ELSE LET s1 == IF ~ opened_any
                   THEN load_file_into_active_tab(st, entries[i], env[i].read)
                   ELSE open_file_in_new_tab(st, entries[i], env[i].read, env[i].view_ok)
         IN  RestoreLoop(s1, entries, env, i + 1, TRUE)

\* loaded: the result of session::load, an Option: <<>> (None) or <<sf>>.
NoSession == <<>>
\* The tab opened last stays the active one.
ActivateRestoredKeepsLastOpened(r, active_tab) ==
    IF ~ r.opened_any THEN r.st ELSE update_window_title(r.st)

\* restore_session after the loop: r is the loop's result.
ActivateRestored(r, active_tab) ==
    IF ~ r.opened_any THEN r.st
    ELSE update_window_title(
             IF Min(active_tab, tab_count(r.st) - 1) # r.st.active_idx
             THEN ActivateView(r.st, Min(active_tab, tab_count(r.st) - 1))
             ELSE r.st)

\* The first restored file is opened in a new tab too.
RestoreSessionKeepsInitialTab(st, loaded, env) ==
    IF loaded = NoSession THEN st
    ELSE ActivateRestored(RestoreLoop(st, loaded[1].tabs, env, 1, TRUE),
                          loaded[1].active_tab)

restore_session(st, loaded, env) ==
    IF loaded = NoSession THEN st
    ELSE ActivateRestored(RestoreLoop(st, loaded[1].tabs, env, 1, FALSE),
                          loaded[1].active_tab)

\* --------------------------------------------- Scintilla (find / replace)
\* The search functions see a view as sv = [text, anchor, caret,
\* target_start, target_end, start_moves]: its text, its selection, its
\* target range (0-based byte offsets) and the one point on which builds of
\* SciLexer.dll differ here: whether an insertion at the start of a
\* non-empty selection moves the selection's start with it (start_moves)
\* or leaves it, growing the selection.
SCFIND_WHOLEWORD == 2
SCFIND_MATCHCASE == 4
HasFlag(flags, f) == (flags \div f) % 2 = 1

Max(a, b) == IF a > b THEN a ELSE b

\* Document::WordCharacterClass for ASCII with the default word characters.
CharacterClass(c) ==
    IF c = 10 \/ c = 13 THEN "newLine"
    ELSE IF c <= 32 THEN "space"
    ELSE IF \/ c >= 48 /\ c <= 57
            \/ c >= 65 /\ c <= 90
            \/ c >= 97 /\ c <= 122
            \/ c = 95
            \/ c >= 128 THEN "word"
    ELSE "punctuation"

\* The case folding of a search without SCFIND_MATCHCASE (ASCII).
FoldCase(c) == IF c >= 65 /\ c <= 90 THEN c + 32 ELSE c

\* Document::IsWordStartAt / IsWordEndAt: a change of character class, with
\* the two ends of the document counting as space.
IsWordStartAt(text, pos) ==
    /\ pos < Len(text)
    /\ CharacterClass(text[pos + 1]) \in {"word", "punctuation"}
    /\ CharacterClass(text[pos + 1])
         # (IF pos > 0 THEN CharacterClass(text[pos]) ELSE "space")

IsWordEndAt(text, pos) ==
    /\ pos > 0
    /\ CharacterClass(text[pos]) \in {"word", "punctuation"}
    /\ CharacterClass(text[pos])
         # (IF pos < Len(text) THEN CharacterClass(text[pos + 1]) ELSE "space")

\* The needle matches the text at pos under the search flags.
MatchesAt(text, pos, needle, flags) ==
    /\ pos >= 0
    /\ pos + Len(needle) <= Len(text)
    /\ \A i \in 1 .. Len(needle) :
          IF HasFlag(flags, SCFIND_MATCHCASE)
          THEN text[pos + i] = needle[i]
          ELSE FoldCase(text[pos + i]) = FoldCase(needle[i])
    /\ HasFlag(flags, SCFIND_WHOLEWORD)
         => IsWordStartAt(text, pos) /\ IsWordEndAt(text, pos + Len(needle))

\* Document::FindText: the match nearest to minPos that lies wholly between
\* the two positions; backward when minPos > maxPos; -1 when there is none.
\* Positions beyond the end of the document are moved to the end.
FindText(text, minPos, maxPos, needle, flags) ==
    LET startPos == Min(minPos, Len(text))
        endPos == Min(maxPos, Len(text))
        lo == Min(startPos, endPos)
        hi == Max(startPos, endPos)
        hits == { q \in lo .. hi - Len(needle) : MatchesAt(text, q, needle, flags) }
    IN  IF hits = {} THEN -1
        ELSE IF startPos <= endPos
             THEN CHOOSE q \in hits : \A r \in hits : q <= r
             ELSE CHOOSE q \in hits : \A r \in hits : q >= r

\* A position of the selection after the text from start_del to end_del was
\* deleted and ins_len bytes were inserted at start_del (SelectionPosition::
\* MoveForDeletion, MoveForInsertion); move_equal: a position at the
\* insertion point moves too.
MovePosition(p, start_del, end_del, ins_len, move_equal) ==
    LET d == IF p > end_del THEN p - (end_del - start_del)
             ELSE IF p > start_del THEN start_del
             ELSE p
    IN  IF d > start_del \/ (d = start_del /\ move_equal) THEN d + ins_len ELSE d

doc_len(sv) == Len(sv.text)
selection_start(sv) == Min(sv.anchor, sv.caret)
selection_end(sv) == Max(sv.anchor, sv.caret)
set_sel(sv, anchor, caret) == [sv EXCEPT !.anchor = anchor, !.caret = caret]
set_target(sv, start, end) == [sv EXCEPT !.target_start = start, !.target_end = end]
get_target_end(sv) == sv.target_end

\* search_in_target: [sv, pos]; pos = -1 is None.  On success the target
\* becomes the match.
search_in_target(sv, text, flags) ==
    LET pos == FindText(sv.text, sv.target_start, sv.target_end, text, flags)
    IN  IF pos < 0 THEN [sv |-> sv, pos |-> -1]
        ELSE [sv |-> [sv EXCEPT !.target_start = pos, !.target_end = pos + Len(text)],
              pos |-> pos]

\* The selection after replace_target: the deletion of the target, then the
\* insertion of the replacement at its start.
MovedSelection(sv, p, other, ins_len) ==
    LET lo == Min(sv.target_start, sv.target_end)
        hi == Max(sv.target_start, sv.target_end)
        d(q) == MovePosition(q, lo, hi, 0, FALSE)
    IN  MovePosition(p, lo, hi, ins_len, sv.start_moves /\ d(p) < d(other))

\* replace_target: [sv, len]; len is the length of the replacement.
replace_target(sv, text) ==
    LET lo == Min(sv.target_start, sv.target_end)
        hi == Max(sv.target_start, sv.target_end)
    IN  [sv |-> [sv EXCEPT !.text = SubSeq(sv.text, 1, lo) \o text
                                    \o SubSeq(sv.text, hi + 1, Len(sv.text)),
                           !.target_start = lo,
                           !.target_end = lo + Len(text),
                           !.anchor = MovedSelection(sv, sv.anchor, sv.caret, Len(text)),
                           !.caret = MovedSelection(sv, sv.caret, sv.anchor, Len(text))],
         len |-> Len(text)]

\* find_next, one search of the target (start, end): select the match.
SearchAndSelect(sv, start, end, text, flags) ==
    LET r == search_in_target(set_target(sv, start, end), text, flags)
    IN  IF r.pos >= 0
        THEN [found |-> TRUE, sv |-> set_sel(r.sv, r.pos, get_target_end(r.sv))]
        ELSE [found |-> FALSE, sv |-> r.sv]

\* The forward search does not wrap around.
FindNextNoWrap(sv, text, flags, forward) ==
    IF forward THEN SearchAndSelect(sv, selection_end(sv), doc_len(sv), text, flags)
    ELSE IF selection_start(sv) > 0
              /\ SearchAndSelect(sv, selection_start(sv), 0, text, flags).found
         THEN SearchAndSelect(sv, selection_start(sv), 0, text, flags)
         ELSE IF selection_end(sv) < doc_len(sv)
              THEN SearchAndSelect(sv, doc_len(sv), selection_end(sv), text, flags)
              ELSE [found |-> FALSE, sv |-> sv]

\* The backward searches pass their targets in ascending order.
FindNextBackwardAscending(sv, text, flags, forward) ==
    IF forward THEN
        IF SearchAndSelect(sv, selection_end(sv), doc_len(sv), text, flags).found
           \/ selection_start(sv) = 0
        THEN SearchAndSelect(sv, selection_end(sv), doc_len(sv), text, flags)
        ELSE SearchAndSelect(sv, 0, selection_start(sv), text, flags)
    ELSE IF selection_start(sv) > 0
              /\ SearchAndSelect(sv, 0, selection_start(sv), text, flags).found
         THEN SearchAndSelect(sv, 0, selection_start(sv), text, flags)
         ELSE IF selection_end(sv) < doc_len(sv)
              THEN SearchAndSelect(sv, selection_end(sv), doc_len(sv), text, flags)
              ELSE [found |-> FALSE, sv |-> sv]

\* ScintillaView::find_next: [found, sv].
find_next(sv, text, flags, forward) ==
    LET sel_start == selection_start(sv)
        sel_end == selection_end(sv)
        primary == IF forward
                   THEN SearchAndSelect(sv, sel_end, doc_len(sv), text, flags)
                   ELSE IF sel_start > 0
                        THEN SearchAndSelect(sv, sel_start, 0, text, flags)
                        ELSE [found |-> FALSE, sv |-> sv]
    IN  IF primary.found THEN primary
        ELSE IF forward THEN
            IF sel_start > 0
            THEN SearchAndSelect(primary.sv, 0, sel_start, text, flags)
            ELSE primary
        ELSE IF sel_end < doc_len(sv)
             THEN SearchAndSelect(primary.sv, doc_len(sv), sel_end, text, flags)
             ELSE primary

\* The number of calls of op among calls.
CallsOf(calls, op) == Cardinality({ i \in 1 .. Len(calls) : calls[i].op = op })

\* One call of replace_all on the view: set_target(pos, len) followed by
\* search_in_target is one "search_in_target" entry; replace_target has the
\* match start and the length it returned.
Call(op, pos, len) == [op |-> op, pos |-> pos, len |-> len]

\* ScintillaView::replace_all, the loop: [count, sv, calls].
RECURSIVE ReplaceAllLoop(_, _, _, _, _, _)
ReplaceAllLoop(sv, find, replacement, flags, pos, count) ==
    LET r == search_in_target(set_target(sv, pos, doc_len(sv)), find, flags)
    IN  IF r.pos < 0
        THEN [count |-> count, sv |-> r.sv,
              calls |-> <<Call("search_in_target", pos, doc_len(sv))>>]
        ELSE [ReplaceAllLoop(replace_target(r.sv, replacement).sv, find, replacement,
                             flags, r.pos + replace_target(r.sv, replacement).len,
                             count + 1)
              EXCEPT !.calls = <<Call("search_in_target", pos, doc_len(sv)),
                                 Call("replace_target", r.pos,
                                      replace_target(r.sv, replacement).len)>> \o @]

\* The document length is read once, before the loop.
RECURSIVE StaleLenLoop(_, _, _, _, _, _, _)
StaleLenLoop(sv, find, replacement, flags, pos, count, len) ==
    LET r == search_in_target(set_target(sv, pos, len), find, flags)
    IN  IF r.pos < 0
        THEN [count |-> count, sv |-> r.sv,
              calls |-> <<Call("search_in_target", pos, len)>>]
        ELSE [StaleLenLoop(replace_target(r.sv, replacement).sv, find, replacement,
                           flags, r.pos + Len(replacement), count + 1, len)
              EXCEPT !.calls = <<Call("search_in_target", pos, len),
                                 Call("replace_target", r.pos, Len(replacement))>> \o @]

ReplaceAllStaleDocLen(sv, find, replacement, flags) ==
    [StaleLenLoop(sv, find, replacement, flags, 0, 0, doc_len(sv))
     EXCEPT !.calls = <<Call("begin_undo_action", 0, 0)>> \o @
                        \o <<Call("end_undo_action", 0, 0)>>]

\* The undo group is closed only when something was replaced.
ReplaceAllEndsUndoOnMatch(sv, find, replacement, flags) ==
    [ReplaceAllLoop(sv, find, replacement, flags, 0, 0)
     EXCEPT !.calls = <<Call("begin_undo_action", 0, 0)>> \o @
                        \o (IF Len(@) > 1 THEN <<Call("end_undo_action", 0, 0)>>
                            ELSE <<>>)]

\* [count, sv, calls]: the returned count, the view afterwards and the calls
\* made on the view, in order.
replace_all(sv, find, replacement, flags) ==
    [ReplaceAllLoop(sv, find, replacement, flags, 0, 0)
     EXCEPT !.calls = <<Call("begin_undo_action", 0, 0)>> \o @
                        \o <<Call("end_undo_action", 0, 0)>>]

\* handle_replace_once: the view afterwards.
handle_replace_once(sv, find, repl, flags, forward) ==
    LET sel_start == selection_start(sv)
        sel_end == selection_end(sv)
        r == search_in_target(set_target(sv, sel_start, sel_end), find, flags)
        s1 == IF sel_end > sel_start
              THEN IF r.pos >= 0 THEN replace_target(r.sv, repl).sv ELSE r.sv
              ELSE sv
    IN  find_next(s1, find, flags, forward).sv

\* ------------------------------------------------------- the state machine
VARIABLES
    tabs,        \* app.tabs: Vec<DocumentState>
    active_idx,  \* app.active_idx
    sci_views,   \* WindowState.sci_views: Vec<ScintillaView>
    tab_items,   \* the labels of the SysTabControl32 items
    title,       \* the text of the main window's title bar
    wrap_check,  \* the View > Word Wrap checkmark
    phase,       \* "startup" (run() before restore_session) or "running"
    last,        \* the last event that changed the window or wrote a file
    sci,         \* the view the find / replace functions act on (SpecSearch)
    session_store \* %APPDATA% and Rivet\\session.json as session::load finds them
                 \* (SpecSession)

vars == <<tabs, active_idx, sci_views, tab_items, title, wrap_check, phase, last,
          sci, session_store>>

\* The window state a handler starts from (wrote: nothing written yet).
St == [tabs |-> tabs, active_idx |-> active_idx, sci_views |-> sci_views,
       tab_items |-> tab_items, title |-> title, wrap_check |-> wrap_check,
       wrote |-> <<>>]

\* The handler returned s.
Becomes(s) ==
    /\ tabs' = s.tabs
    /\ active_idx' = s.active_idx
    /\ sci_views' = s.sci_views
    /\ tab_items' = s.tab_items
    /\ title' = s.title
    /\ wrap_check' = s.wrap_check

\* The handler returned s; last keeps the event when it changed the window
\* or wrote a file (a cancelled dialog or a failed read leaves no trace).
Handled(s, event) ==
    /\ Becomes(s)
    /\ last' = IF s = St THEN last ELSE event

\* Spec follows neither the selection and target of the views nor the
\* session file (the result of session::load is an input of RestoreSession):
\* sci stays a fresh view and session_store stays unread.
FreshSearchView ==
    [text |-> <<>>, anchor |-> 0, caret |-> 0, target_start |-> 0, target_end |-> 0,
     start_moves |-> FALSE]
UnreadStore ==
    [appdata |-> FALSE,
     file |-> [kind |-> "missing",
               data |-> [json |-> FALSE,
                         version |-> [type |-> "absent", num |-> 0, items |-> <<>>],
                         tabs |-> [type |-> "absent", num |-> 0, items |-> <<>>],
                         active_tab |-> [type |-> "absent", num |-> 0, items |-> <<>>],
                         dark_mode |-> [type |-> "absent", num |-> 0, items |-> <<>>],
                         tab_position |-> [type |-> "absent", num |-> 0, items |-> <<>>]]]]

\* create_child_controls + App::new: one untitled tab, one visible view.
Init ==
    /\ tabs = <<new_untitled(1)>>
    /\ active_idx = 0
    /\ sci_views = <<[NewView(1) EXCEPT !.visible = TRUE]>>
    /\ tab_items = <<<<<<"Untitled">>>>>>
    /\ title = <<"Rivet">>
    /\ wrap_check = FALSE
    /\ phase = "startup"
    /\ last = [op |-> "init"]
    /\ sci = FreshSearchView
    /\ session_store = UnreadStore

PathOpt == Paths \cup {None}
Reads == CoreFiles \cup {ReadErr}
SeqsUpTo(S, n) == UNION { [1 .. k -> S] : k \in 0 .. n }
SessionFiles ==
    {NoSession} \cup
    { <<sf>> : sf \in [tabs : SeqsUpTo(PathOpt, MaxTabs), active_tab : 0 .. MaxTabs] }
EntryEnv == [read : Reads, view_ok : BOOLEAN]

\* An answer of the environment that the handler never asks for is fixed
\* (the read of an untitled entry, the picker of a Save with a path, ...),
\* so that one run of a handler is one step.
UntitledClean(doc) == doc.path = None /\ ~ doc.dirty
RestoreAsks(sf, env) ==
    \A i \in 1 .. Len(sf.tabs) :
        /\ sf.tabs[i] = None => env[i].read = ReadErr
        /\ (\/ env[i].read = ReadErr
            \/ \A j \in 1 .. i - 1 : sf.tabs[j] = None \/ env[j].read = ReadErr)
           => env[i].view_ok
OpenAsks(st, picked, read, view_ok) ==
    /\ (picked = None \/ PositionOfPath(st, picked) >= 0) => read = ReadErr
    /\ (read = ReadErr \/ UntitledClean(active_doc(st))) => view_ok
SaveAsks(st, idx, force_dialog, picked, write_ok) ==
    LET ask == force_dialog \/ At(st.tabs, idx).path = None
    IN  /\ ~ ask => picked = None
        /\ (ask /\ picked = None) => write_ok
CloseAsks(st, idx, answer, picked, write_ok) ==
    IF At(st.tabs, idx).dirty /\ answer = "IDYES"
    THEN SaveAsks(st, idx, FALSE, picked, write_ok)
    ELSE /\ picked = None
         /\ write_ok
         /\ ~ At(st.tabs, idx).dirty => answer = "IDNO"

\* run(): restore_session, once, before the message loop.
RestoreSession ==
    /\ phase = "startup"
    /\ \E loaded \in SessionFiles :
         \E env \in [1 .. (IF loaded = NoSession THEN 0 ELSE Len(loaded[1].tabs)) -> EntryEnv] :
            /\ loaded # NoSession => RestoreAsks(loaded[1], env)
            /\ Becomes(restore_session(St, loaded, env))
            /\ last' = [op |-> "restore", loaded |-> loaded,
                        read_ok |-> [i \in DOMAIN env |-> env[i].read # ReadErr],
                        view_ok |-> [i \in DOMAIN env |-> env[i].view_ok]]
    /\ phase' = "running"
    /\ UNCHANGED <<sci, session_store>>

\* WM_COMMAND / IDM_FILE_NEW
FileNew ==
    /\ phase = "running"
    /\ \E view_ok \in BOOLEAN :
         LET s == handle_new_file(St, view_ok)
         IN  /\ UntitledClean(active_doc(St)) => view_ok
             /\ Len(s.tabs) <= MaxTabs
             /\ Handled(s, [op |-> "new", view_ok |-> view_ok])
    /\ UNCHANGED <<phase, sci, session_store>>

\* WM_COMMAND / IDM_FILE_OPEN
FileOpen ==
    /\ phase = "running"
    /\ \E picked \in PathOpt, read \in Reads, view_ok \in BOOLEAN :
         LET s == handle_file_open(St, picked, read, view_ok)
         IN  /\ OpenAsks(St, picked, read, view_ok)
             /\ Len(s.tabs) <= MaxTabs
             /\ Handled(s,
                        [op |-> "open", picked |-> picked,
                         read_ok |-> (read # ReadErr), view_ok |-> view_ok])
    /\ UNCHANGED <<phase, sci, session_store>>

\* WM_COMMAND / IDM_FILE_SAVE (force_dialog = FALSE), IDM_FILE_SAVE_AS (TRUE)
FileSave ==
    /\ phase = "running"
    /\ \E force_dialog \in BOOLEAN, picked \in PathOpt, write_ok \in BOOLEAN :
         LET s == handle_file_save(St, force_dialog, picked, write_ok)
         IN  /\ SaveAsks(St, active_idx, force_dialog, picked, write_ok)
             /\ Handled(s, [op |-> "save", force_dialog |-> force_dialog,
                            picked |-> picked, wrote |-> s.wrote])
    /\ UNCHANGED <<phase, sci, session_store>>

\* WM_COMMAND / IDM_FILE_CLOSE: handle_close_tab(active_idx)
FileClose ==
    /\ phase = "running"
    /\ \E answer \in {"IDYES", "IDNO", "IDCANCEL"}, picked \in PathOpt,
          write_ok \in BOOLEAN :
         LET s == handle_close_tab(St, active_idx, answer, picked, write_ok)
         IN  /\ CloseAsks(St, active_idx, answer, picked, write_ok)
             /\ Handled(s, [op |-> "close", count |-> Len(tabs), answer |-> answer,
                            picked |-> picked, wrote |-> s.wrote])
    /\ UNCHANGED <<phase, sci, session_store>>

\* The user clicks another tab: WM_NOTIFY / TCN_SELCHANGE
TabSwitch ==
    /\ phase = "running"
    /\ \E new_idx \in 0 .. Len(tab_items) - 1 :
         /\ new_idx # active_idx
         /\ Handled(TCN_SELCHANGE(St, new_idx), [op |-> "switch"])
    /\ UNCHANGED <<phase, sci, session_store>>

\* The user edits the text of a visible view (types "x" at the end, or
\* deletes the last byte); Scintilla notifies the window.
UserEdit ==
    /\ phase = "running"
    /\ \E i \in 0 .. Len(sci_views) - 1, kind \in {"type", "delete"} :
         LET v == At(sci_views, i)
             t == ViewText(v)
         IN  /\ v.visible
             /\ IF kind = "type" THEN Len(t) < MaxLen ELSE Len(t) > 0
             /\ Handled(SciCall(St, i,
                    SciModify(v, IF kind = "type" THEN Append(t, TypedByte)
                                 ELSE SubSeq(t, 1, Len(t) - 1))),
                        [op |-> "edit"])
    /\ UNCHANGED <<phase, sci, session_store>>

\* WM_COMMAND / IDM_EDIT_UNDO, IDM_EDIT_REDO on the active view
UndoRedo ==
    /\ phase = "running"
    /\ \E to \in {At(sci_views, active_idx).cur - 1, At(sci_views, active_idx).cur + 1} :
         /\ to >= 1
         /\ to <= Len(At(sci_views, active_idx).hist)
         /\ Handled(SciCall(St, active_idx, SciMove(At(sci_views, active_idx), to)),
                    [op |-> "undoredo"])
    /\ UNCHANGED <<phase, sci, session_store>>

\* The active view repaints: WM_NOTIFY / SCN_UPDATEUI
UpdateUI ==
    /\ phase = "running"
    /\ Handled(SCN_UPDATEUI(St), [op |-> "updateui"])
    /\ UNCHANGED <<phase, sci, session_store>>

Next ==
    \/ RestoreSession
    \/ FileNew
    \/ FileOpen
    \/ FileSave
    \/ FileClose
    \/ TabSwitch
    \/ UserEdit
    \/ UndoRedo
    \/ UpdateUI

Spec == Init /\ [][Next]_vars

\* ------------------------------------------- restore_session, any snapshot
\* SpecRestore: start-up with every snapshot of up to MaxSnapshot entries
\* (untitled, or one of NumSnapshotPaths paths), any active_tab, every entry's
\* file readable or not and its view created or not.
SnapshotFiles ==
    [tabs : SeqsUpTo({ PathOf(i) : i \in 1 .. NumSnapshotPaths } \cup {None}, MaxSnapshot),
     active_tab : 0 .. MaxSnapshot]

RestoreSnapshot ==
    /\ phase = "startup"
    /\ \E sf \in SnapshotFiles :
         \E env \in [1 .. Len(sf.tabs) -> EntryEnv] :
            /\ RestoreAsks(sf, env)
            /\ Becomes(restore_session(St, <<sf>>, env))
            /\ last' = [op |-> "restore", loaded |-> <<sf>>,
                        read_ok |-> [i \in DOMAIN env |-> env[i].read # ReadErr],
                        view_ok |-> [i \in DOMAIN env |-> env[i].view_ok]]
    /\ phase' = "running"
    /\ UNCHANGED <<sci, session_store>>

SpecRestore == Init /\ [][RestoreSnapshot]_vars

\* ------------------------------------------------------- View > Word Wrap
\* handle_word_wrap_toggle: toggle word wrap for the active document.
handle_word_wrap_toggle(st) ==
    update_wrap_checkmark(
        set_word_wrap([st EXCEPT !.tabs[st.active_idx + 1].word_wrap =
                                     ~ active_doc(st).word_wrap],
                      st.active_idx, ~ active_doc(st).word_wrap),
        ~ active_doc(st).word_wrap)

\* WM_COMMAND / IDM_VIEW_WORD_WRAP
WordWrapToggle ==
    /\ phase = "running"
    /\ Handled(handle_word_wrap_toggle(St), [op |-> "word_wrap"])
    /\ UNCHANGED <<phase, sci, session_store>>

\* SpecWordWrap: the window after start-up without a session; the user
\* toggles word wrap, opens files, adds, switches and closes tabs.
WordWrapInit ==
    /\ tabs = <<new_untitled(1)>>
    /\ active_idx = 0
    /\ sci_views = <<[NewView(1) EXCEPT !.visible = TRUE]>>
    /\ tab_items = <<<<<<"Untitled">>>>>>
    /\ title = <<"Rivet">>
    /\ wrap_check = FALSE
    /\ phase = "running"
    /\ last = [op |-> "init"]
    /\ sci = FreshSearchView
    /\ session_store = UnreadStore

WordWrapNext ==
    \/ WordWrapToggle
    \/ FileNew
    \/ FileOpen
    \/ TabSwitch
    \/ FileClose

SpecWordWrap == WordWrapInit /\ [][WordWrapNext]_vars

\* ------------------------------------------- handle_close_tab(idx), any idx
\* IDM_FILE_CLOSE passes the active index; handle_close_tab and
\* App::remove_tab take any index.  SpecRemoveTab starts from every window
\* with 1 .. MaxCloseTabs untitled tabs, each clean or edited once, any of
\* them active, and removes tabs at every index.
CloseTabView(h, dirty, active) ==
    IF dirty
    THEN [NewView(h) EXCEPT !.hist = <<<<>>, <<TypedByte>>>>, !.cur = 2,
                            !.visible = active]
    ELSE [NewView(h) EXCEPT !.visible = active]

CloseTabDoc(h, dirty) == [new_untitled(h) EXCEPT !.dirty = dirty]

RemoveTabInit ==
    \E n \in 1 .. MaxCloseTabs :
        \E d \in [1 .. n -> BOOLEAN], a \in 0 .. n - 1 :
            /\ tabs = [i \in 1 .. n |-> CloseTabDoc(i, d[i])]
            /\ active_idx = a
            /\ sci_views = [i \in 1 .. n |-> CloseTabView(i, d[i], i = a + 1)]
            /\ tab_items = [i \in 1 .. n |-> tab_label(CloseTabDoc(i, d[i]))]
            /\ title = window_title(CloseTabDoc(a + 1, d[a + 1]))
            /\ wrap_check = FALSE
            /\ phase = "running"
            /\ last = [op |-> "init"]
            /\ sci = FreshSearchView
            /\ session_store = UnreadStore

\* handle_close_tab past the dirty check, with more than one tab.
RemoveTabStep ==
    /\ Len(tabs) >= 2
    /\ \E idx \in 0 .. Len(tabs) - 1 :
         /\ Becomes(RemoveTab(St, idx))
         /\ last' = [op |-> "remove_tab", n |-> Len(tabs), a |-> active_idx,
                     idx |-> idx]
    /\ UNCHANGED <<phase, sci, session_store>>

SpecRemoveTab == RemoveTabInit /\ [][RemoveTabStep]_vars

\* SpecCloseTab: the same windows, and handle_close_tab as a whole (prompt,
\* save, removal) on the tab at every index.
CloseTabAt ==
    /\ \E idx \in 0 .. Len(tabs) - 1, answer \in {"IDYES", "IDNO", "IDCANCEL"},
          picked \in PathOpt, write_ok \in BOOLEAN :
         LET s == handle_close_tab(St, idx, answer, picked, write_ok)
         IN  /\ CloseAsks(St, idx, answer, picked, write_ok)
             /\ Handled(s, [op |-> "close_tab", n |-> Len(tabs), a |-> active_idx,
                            idx |-> idx, answer |-> answer, wrote |-> s.wrote])
    /\ UNCHANGED <<phase, sci, session_store>>

SpecCloseTab == RemoveTabInit /\ [][CloseTabAt]_vars

\* ------------------------------------------------------- find / replace
\* The inputs: every document over "a", "." and every needle over "a", "A",
\* "." up to the bounds, and the documented example "cat cat cat" / "cat" /
\* "dog".
DocAlphabet == {97, 46}
NeedleAlphabet == {97, 65, 46}
CatCatCat == <<99, 97, 116, 32, 99, 97, 116, 32, 99, 97, 116>>
Cat == <<99, 97, 116>>
Dog == <<100, 111, 103>>
SearchDocs == SeqsUpTo(DocAlphabet, MaxDocLen) \cup {CatCatCat}
Needles == (SeqsUpTo(NeedleAlphabet, MaxNeedleLen) \ {<<>>}) \cup {Cat}
Replacements == SeqsUpTo(DocAlphabet, MaxReplLen) \cup {Dog}
SearchFlags ==
    {0, SCFIND_WHOLEWORD, SCFIND_MATCHCASE, SCFIND_WHOLEWORD + SCFIND_MATCHCASE}

\* The window around the view that is searched: one tab, as after start-up.
SearchWindow ==
    /\ tabs = <<new_untitled(1)>>
    /\ active_idx = 0
    /\ sci_views = <<[NewView(1) EXCEPT !.visible = TRUE]>>
    /\ tab_items = <<<<<<"Untitled">>>>>>
    /\ title = <<"Rivet">>
    /\ wrap_check = FALSE
    /\ phase = "running"
    /\ last = [op |-> "init"]
    /\ session_store = UnreadStore

SearchFrame ==
    UNCHANGED <<tabs, active_idx, sci_views, tab_items, title, wrap_check, phase,
                session_store>>

\* The active view when the Find / Replace dialog sends its message: any
\* document, any selection.
SearchView(text, anchor, caret, start_moves) ==
    [text |-> text, anchor |-> anchor, caret |-> caret,
     target_start |-> 0, target_end |-> 0, start_moves |-> start_moves]

\* SpecFind: handle_findreplace_msg, FR_FINDNEXT (and handle_find_next, F3 /
\* Shift+F3) on every document and selection.
FindInit ==
    /\ \E text \in SearchDocs :
         \E anchor \in 0 .. Len(text) :
            \E caret \in anchor .. Len(text) :
                sci = SearchView(text, anchor, caret, FALSE)
    /\ SearchWindow

FindNext ==
    /\ \E find \in Needles, flags \in SearchFlags, forward \in BOOLEAN :
         /\ sci' = find_next(sci, find, flags, forward).sv
         /\ last' = [op |-> "find_next", forward |-> forward,
                     sel |-> <<selection_start(sci), selection_end(sci)>>,
                     found |-> find_next(sci, find, flags, forward).found]
    /\ SearchFrame

SpecFind == FindInit /\ [][FindNext]_vars

\* SpecReplaceAll: handle_findreplace_msg, FR_REPLACEALL on every document.
ReplaceAllInit ==
    /\ \E text \in SearchDocs :
         \E caret \in 0 .. Len(text) :
            sci = SearchView(text, caret, caret, FALSE)
    /\ SearchWindow

ReplaceAll ==
    /\ sci.text \in SearchDocs
    /\ \E find \in Needles, repl \in Replacements, flags \in SearchFlags :
         LET r == replace_all(sci, find, repl, flags)
         IN  /\ sci' = r.sv
             /\ last' = [op |-> "replace_all",
                         count |-> r.count,
                         searches |-> CallsOf(r.calls, "search_in_target"),
                         begun |-> CallsOf(r.calls, "begin_undo_action"),
                         ended |-> CallsOf(r.calls, "end_undo_action")]
    /\ SearchFrame

SpecReplaceAll == ReplaceAllInit /\ [][ReplaceAll]_vars

\* SpecReplaceOnce: handle_findreplace_msg, FR_REPLACE on every document and
\* selection.
ReplaceOnceInit ==
    /\ \E text \in SearchDocs, start_moves \in BOOLEAN :
         \E anchor \in 0 .. Len(text) :
            \E caret \in anchor .. Len(text) :
                sci = SearchView(text, anchor, caret, start_moves)
    /\ SearchWindow

ReplaceOnce ==
    /\ sci.text \in SearchDocs
    /\ \E find \in Needles, repl \in Replacements, flags \in SearchFlags,
          forward \in BOOLEAN :
         /\ sci' = handle_replace_once(sci, find, repl, flags, forward)
         /\ last' = [op |-> "replace_once"]
    /\ SearchFrame

SpecReplaceOnce == ReplaceOnceInit /\ [][ReplaceOnce]_vars

\* ------------------------------------------------------- session::load
\* The session store is session_store = [appdata, file]: whether APPDATA is
\* set, and Rivet\session.json as fs::read finds it: file = [kind, data]
\* with kind "missing", "unreadable" or "data".  The data are seen as
\* serde_json sees them: json (the bytes are a JSON object) and, for each
\* field of SessionFile, the value under its key: [type, num, items] with
\* type "absent" when the object has no such key.
SESSION_VERSION == 1

Absent == [type |-> "absent", num |-> 0, items |-> <<>>]
JNull == [type |-> "null", num |-> 0, items |-> <<>>]
JString == [type |-> "string", num |-> 0, items |-> <<>>]
JNumber(n) == [type |-> "number", num |-> n, items |-> <<>>]
JBool(b) == [type |-> "bool", num |-> IF b THEN 1 ELSE 0, items |-> <<>>]
JArray(items) == [type |-> "array", num |-> 0, items |-> items]
\* An element of "tabs" that is no TabEntry (a field missing or of the wrong
\* type); a TabEntry is seen as its path, None for an untitled buffer.
BadEntry == <<-2>>

\* Bytes that are no JSON object.
Garbage ==
    [json |-> FALSE, version |-> Absent, tabs |-> Absent, active_tab |-> Absent,
     dark_mode |-> Absent, tab_position |-> Absent]

\* Deserialize for u32 and usize, and for u8.
IsUnsigned(v) == v.type = "number" /\ v.num >= 0
IsU8(v) == v.type = "number" /\ v.num >= 0 /\ v.num <= 255

\* A required field is missing: dark_mode is no longer #[serde(default)].
FromSliceDarkModeRequired(data) ==
    IF ~ data.json THEN None
    ELSE IF ~ IsUnsigned(data.version) THEN None
    ELSE IF data.tabs.type # "array" THEN None
    ELSE IF \E i \in 1 .. Len(data.tabs.items) : data.tabs.items[i] = BadEntry THEN None
    ELSE IF ~ IsUnsigned(data.active_tab) THEN None
    ELSE IF data.dark_mode.type # "bool" THEN None
    ELSE IF data.tab_position.type # "absent" /\ ~ IsU8(data.tab_position) THEN None
    ELSE <<[version |-> data.version.num,
            tabs |-> data.tabs.items,
            active_tab |-> data.active_tab.num,
            dark_mode |-> data.dark_mode.num = 1,
            tab_position |-> IF data.tab_position.type = "absent" THEN 0
                             ELSE data.tab_position.num]>>

\* serde_json::from_slice::<SessionFile>(&data).ok(): None, or <<sf>>.
\* version, tabs and active_tab are required; dark_mode and tab_position
\* are #[serde(default)]: false and 0 when the key is missing.
from_slice(data) ==
    IF ~ data.json THEN None
    ELSE IF ~ IsUnsigned(data.version) THEN None
    ELSE IF data.tabs.type # "array" THEN None
    ELSE IF \E i \in 1 .. Len(data.tabs.items) : data.tabs.items[i] = BadEntry THEN None
    ELSE IF ~ IsUnsigned(data.active_tab) THEN None
    ELSE IF data.dark_mode.type \notin {"absent", "bool"} THEN None
    ELSE IF data.tab_position.type # "absent" /\ ~ IsU8(data.tab_position) THEN None
    ELSE <<[version |-> data.version.num,
            tabs |-> data.tabs.items,
            active_tab |-> data.active_tab.num,
            dark_mode |-> data.dark_mode.type = "bool" /\ data.dark_mode.num = 1,
            tab_position |-> IF data.tab_position.type = "absent" THEN 0
                             ELSE data.tab_position.num]>>

\* session_path: None when APPDATA is not set.
session_path(store) == IF store.appdata THEN <<"Rivet", "session.json">> ELSE None

\* fs::read(&path).ok()
fs_read(store) == IF store.file.kind = "data" THEN <<store.file.data>> ELSE None

\* load without the version check.
LoadAnyVersion(store) ==
    IF session_path(store) = None THEN None
    ELSE IF fs_read(store) = None THEN None
    ELSE from_slice(fs_read(store)[1])

\* session::load: None, or <<sf>>.
load(store) ==
    IF session_path(store) = None THEN None
    ELSE IF fs_read(store) = None THEN None
    ELSE IF from_slice(fs_read(store)[1]) = None THEN None
    ELSE IF from_slice(fs_read(store)[1])[1].version # SESSION_VERSION THEN None
    ELSE from_slice(fs_read(store)[1])

\* What Rivet\session.json can hold.
SessionData ==
    {Garbage} \cup
    [json : {TRUE},
     version : {Absent, JString, JNumber(0), JNumber(SESSION_VERSION), JNumber(99)},
     tabs : {Absent, JString}
            \cup { JArray(e) : e \in SeqsUpTo(PathOpt \cup {BadEntry}, MaxTabs) },
     active_tab : {Absent, JString, JNumber(0), JNumber(1)},
     dark_mode : {Absent, JNull, JNumber(0), JBool(FALSE), JBool(TRUE)},
     tab_position : {Absent, JString, JNumber(0), JNumber(2), JNumber(256)}]

\* The stores run() can start with; without APPDATA there is no file to
\* look at.
SessionStores ==
    {UnreadStore} \cup
    { [appdata |-> TRUE, file |-> [kind |-> k, data |-> Garbage]] :
          k \in {"missing", "unreadable"} } \cup
    { [appdata |-> TRUE, file |-> [kind |-> "data", data |-> d]] : d \in SessionData }

SessionInit ==
    /\ session_store \in SessionStores
    /\ tabs = <<new_untitled(1)>>
    /\ active_idx = 0
    /\ sci_views = <<[NewView(1) EXCEPT !.visible = TRUE]>>
    /\ tab_items = <<<<<<"Untitled">>>>>>
    /\ title = <<"Rivet">>
    /\ wrap_check = FALSE
    /\ phase = "startup"
    /\ last = [op |-> "init"]
    /\ sci = FreshSearchView

\* restore_session's first statement: session::load().
Load ==
    /\ last.op = "init"
    /\ last' = [op |-> "load", result |-> load(session_store)]
    /\ UNCHANGED <<tabs, active_idx, sci_views, tab_items, title, wrap_check, phase,
                   sci, session_store>>

SpecSession == SessionInit /\ [][Load]_vars

\* ------------------------------------------- session checkpoint, shutdown
\* session::save.  outcome is what the file system does once the path is
\* known: "ok" (the snapshot is written), "failed" (create_dir_all or
\* File::create fails: the file is as before) or "partial" (File::create
\* has truncated the file and the write fails).  The result of type
\* io::Result is dropped by the caller; the store is what remains.
SaveOutcomes == {"ok", "failed", "partial"}

session_save(store, entries, active_tab, dark_mode, tab_position, outcome) ==
    IF session_path(store) = None \/ outcome = "failed" THEN store
    ELSE IF outcome = "partial"
         THEN [store EXCEPT !.file = [kind |-> "data", data |-> Garbage]]
    ELSE [store EXCEPT !.file =
              [kind |-> "data",
               data |-> [json |-> TRUE,
                         version |-> JNumber(SESSION_VERSION),
                         tabs |-> JArray(entries),
                         active_tab |-> JNumber(active_tab),
                         dark_mode |-> JBool(dark_mode),
                         tab_position |-> JNumber(tab_position)]]]

\* save_session(&WindowState): one entry per tab (seen as its path), the
\* active index; dark mode and tab position are as WindowState::new sets
\* them.  The window state is borrowed immutably.
save_session(st, store, outcome) ==
    session_save(store, [i \in 1 .. Len(st.tabs) |-> st.tabs[i].path],
                 st.active_idx, FALSE, 0, outcome)

\* The handlers return [st, store, saved, destroyed]: the window state, the
\* session store, whether save_session was called and whether
\* DestroyWindow was.
WM_TIMER(st, store, outcome) ==
    [st |-> st, store |-> save_session(st, store, outcome),
     saved |-> TRUE, destroyed |-> FALSE]

\* A failed session write keeps the window open.
WmCloseStopsOnSaveError(st, store, discard, outcome) ==
    IF (\E i \in 1 .. Len(st.tabs) : st.tabs[i].dirty) /\ ~ discard
    THEN [st |-> st, store |-> store, saved |-> FALSE, destroyed |-> FALSE]
    ELSE [st |-> st, store |-> save_session(st, store, outcome),
          saved |-> TRUE, destroyed |-> (outcome = "ok")]

\* discard: confirm_discard_all returned true (asked only when a tab is
\* dirty).
WM_CLOSE(st, store, discard, outcome) ==
    IF (\E i \in 1 .. Len(st.tabs) : st.tabs[i].dirty) /\ ~ discard
    THEN [st |-> st, store |-> store, saved |-> FALSE, destroyed |-> FALSE]
    ELSE [st |-> st, store |-> save_session(st, store, outcome),
          saved |-> TRUE, destroyed |-> TRUE]

IDM_FILE_EXIT(st, store) ==
    [st |-> st, store |-> store, saved |-> FALSE, destroyed |-> TRUE]

\* SpecLifecycle starts from every running window with 1 .. MaxTabs tabs,
\* each untitled or an empty file, clean or edited once, any of them
\* active, with or without APPDATA, before the first checkpoint.
LifecycleDoc(h, path, dirty) == [CloseTabDoc(h, dirty) EXCEPT !.path = path]

LifecycleInit ==
    /\ \E n \in 1 .. MaxTabs :
          \E d \in [1 .. n -> BOOLEAN], q \in [1 .. n -> PathOpt], a \in 0 .. n - 1 :
            /\ tabs = [i \in 1 .. n |-> LifecycleDoc(i, q[i], d[i])]
            /\ active_idx = a
            /\ sci_views = [i \in 1 .. n |-> CloseTabView(i, d[i], i = a + 1)]
            /\ tab_items = [i \in 1 .. n |-> tab_label(LifecycleDoc(i, q[i], d[i]))]
            /\ title = window_title(LifecycleDoc(a + 1, q[a + 1], d[a + 1]))
    /\ wrap_check = FALSE
    /\ phase = "running"
    /\ last = [op |-> "init"]
    /\ sci = FreshSearchView
    /\ \E appdata \in BOOLEAN : session_store = [UnreadStore EXCEPT !.appdata = appdata]

\* The handler returned r.
Returned(r, event) ==
    /\ Becomes(r.st)
    /\ session_store' = r.store
    /\ phase' = IF r.destroyed THEN "destroyed" ELSE "running"
    /\ last' = event
    /\ UNCHANGED sci

\* WM_TIMER with AUTOSAVE_TIMER_ID
Timer ==
    /\ phase = "running"
    /\ \E outcome \in SaveOutcomes :
         /\ ~ session_store.appdata => outcome = "failed"
         /\ Returned(WM_TIMER(St, session_store, outcome),
                     [op |-> "timer", outcome |-> outcome, saved |-> TRUE])

\* WM_CLOSE: the user closes the window.
Close ==
    /\ phase = "running"
    /\ \E discard \in BOOLEAN, outcome \in SaveOutcomes :
         /\ (\A i \in 1 .. Len(tabs) : ~ tabs[i].dirty) => discard
         /\ (~ session_store.appdata \/ ~ discard) => outcome = "failed"
         /\ Returned(WM_CLOSE(St, session_store, discard, outcome),
                     [op |-> "close_window", outcome |-> outcome,
                      saved |-> WM_CLOSE(St, session_store, discard, outcome).saved])

\* WM_COMMAND / IDM_FILE_EXIT
Exit ==
    /\ phase = "running"
    /\ Returned(IDM_FILE_EXIT(St, session_store),
                [op |-> "exit", outcome |-> "failed",
                 saved |-> IDM_FILE_EXIT(St, session_store).saved])

LifecycleNext ==
    \/ Timer
    \/ Close
    \/ Exit
    \/ TabSwitch
    \/ UserEdit

SpecLifecycle == LifecycleInit /\ [][LifecycleNext]_vars

\* ------------------------------------------------------ the codec alone
\* SpecCodec applies App::open_file's pure steps and App::save's encoding
\* to every input below: the file was read (bytes), detect_and_decode
\* gives the encoding and the UTF-8 content, detect_eol the line ending,
\* encode_for_disk the bytes a save of the unchanged content writes.
\* UTF-16 input: a byte-order mark and up to MaxBytes bytes of 0, "h", D8,
\* DC (surrogate halves).  Other input: up to MaxBytes bytes of the UTF-8
\* marker's bytes, "h", 80, FF, FE, and of CR, LF, "a".  And the
\* documented examples.
Utf16Payloads == SeqsUpTo({0, 104, 216, 220}, MaxBytes)
CodecExamples ==
    { <<255, 254, 104, 0, 105, 0>>,                   \* FF FE "hi"
      <<239, 187, 191, 104, 101, 108, 108, 111>>,     \* EF BB BF "hello"
      <<128, 129, 130>>,
      <<97, 13, 10, 98, 13, 10, 99, 10>>,             \* "a\r\nb\r\nc\n"
      <<97, 10, 98, 10, 99, 10>>,                     \* "a\nb\nc\n"
      <<110, 111, 32, 110, 101, 119, 108, 105, 110, 101, 115>>,   \* "no newlines"
      <<255, 254, 0, 216, 0, 220>>,                   \* U+10000, little endian
      <<254, 255, 216, 0, 220, 0>> }                  \* U+10000, big endian
CodecInputs ==
    { <<255, 254>> \o p : p \in Utf16Payloads }
    \cup { <<254, 255>> \o p : p \in Utf16Payloads }
    \cup SeqsUpTo({239, 187, 191, 104, 128, 255, 254}, MaxBytes)
    \cup SeqsUpTo({13, 10, 97}, MaxBytes)
    \cup CodecExamples

CodecInit ==
    /\ last \in [op : {"read"}, bytes : CodecInputs]
    /\ tabs = <<new_untitled(1)>>
    /\ active_idx = 0
    /\ sci_views = <<[NewView(1) EXCEPT !.visible = TRUE]>>
    /\ tab_items = <<<<<<"Untitled">>>>>>
    /\ title = <<"Rivet">>
    /\ wrap_check = FALSE
    /\ phase = "running"
    /\ sci = FreshSearchView
    /\ session_store = UnreadStore

CodecFrame ==
    UNCHANGED <<tabs, active_idx, sci_views, tab_items, title, wrap_check, phase,
                sci, session_store>>

\* App::open_file: detect_and_decode(bytes)
Decode ==
    /\ last.op = "read"
    /\ last' = [op |-> "decode", bytes |-> last.bytes,
                encoding |-> detect_and_decode(last.bytes)[1],
                utf8 |-> detect_and_decode(last.bytes)[2]]
    /\ CodecFrame

\* App::open_file: detect_eol(&utf8_bytes)
DetectEol ==
    /\ last.op = "decode"
    /\ last' = [op |-> "detect_eol", bytes |-> last.bytes,
                encoding |-> last.encoding, utf8 |-> last.utf8,
                eol |-> detect_eol(last.utf8)]
    /\ CodecFrame

\* App::save of the unchanged content: encode_for_disk(utf8)
Encode ==
    /\ last.op = "detect_eol"
    /\ last' = [op |-> "encode", bytes |-> last.bytes,
                encoding |-> last.encoding, utf8 |-> last.utf8,
                disk |-> encode_for_disk(last.encoding, last.utf8)]
    /\ CodecFrame

CodecNext ==
    \/ Decode
    \/ DetectEol
    \/ Encode

SpecCodec == CodecInit /\ [][CodecNext]_vars

\* ------------------------------------------------------------ the claims
\* C1: the number of documents equals the number of views, and the view
\* created for a document is at the document's index, in every state.
C1_LengthAndPairing ==
    /\ Len(tabs) = Len(sci_views)
    /\ \A i \in 1 .. Min(Len(tabs), Len(sci_views)) :
           tabs[i].view_of = sci_views[i].hwnd

\* A tab in front of another was closed: the second document and its view
\* moved together to index 0.
C1_Witness ==
    /\ last.op = "close"
    /\ last.count = 2
    /\ Len(tabs) = 1
    /\ tabs[1].view_of = 2
    /\ sci_views[1].hwnd = 2

\* C2: tabs is never empty, and a close request for the only tab leaves
\* one tab, whatever the user and the file system answer.
C2_NeverEmpty ==
    /\ Len(tabs) >= 1
    /\ Len(tabs) = 1 =>
          \A answer \in {"IDYES", "IDNO", "IDCANCEL"}, picked \in PathOpt,
             write_ok \in BOOLEAN :
             Len(handle_close_tab(St, active_idx, answer, picked, write_ok).tabs) = 1

\* The only tab, holding a file, was closed: it is still there, untitled.
C2_Witness ==
    /\ last.op = "close"
    /\ last.count = 1
    /\ Len(tabs) = 1
    /\ tabs[1].path = None

\* C3: active_idx is an index of tabs in every state.
C3_ActiveInRange == active_idx >= 0 /\ active_idx < Len(tabs)

\* The last tab of two was active and was closed: the active index moved
\* down with the length.
C3_Witness ==
    /\ last.op = "close"
    /\ last.count = 2
    /\ tabs[1].view_of = 1
    /\ active_idx = 0

\* C4: for every tab, dirty is true exactly when the paired view is away
\* from its save point, in every state between two handlers.
C4_DirtyIffLeftSavePoint ==
    \A i \in 1 .. Min(Len(tabs), Len(sci_views)) :
        tabs[i].dirty <=> ~ AtSavePoint(sci_views[i])

\* The user undid the only edit of a document: the view is back at its
\* save point with the edit still in its history, and the document is clean.
C4_Witness ==
    /\ last.op = "undoredo"
    /\ ~ active_doc(St).dirty
    /\ At(sci_views, active_idx).cur = 1
    /\ At(sci_views, active_idx).save = 1
    /\ Len(At(sci_views, active_idx).hist) = 2

\* The state s after a save-point notification, against the state before.
NotificationFrame(s, dirty) ==
    /\ active_doc(s).dirty = dirty
    /\ At(s.tab_items, active_idx) = tab_label(active_doc(s))
    /\ s.title = window_title(active_doc(s))
    /\ Len(s.tabs) = Len(tabs)
    /\ s.active_idx = active_idx
    /\ \A i \in 1 .. Len(tabs) : i # active_idx + 1 => s.tabs[i] = tabs[i]

\* C5: SCN_SAVEPOINTLEFT sets the active document dirty and
\* SCN_SAVEPOINTREACHED sets it clean; the tab label and the title show the
\* new state; no other document, the tab count or active_idx changes.
C5_NotificationEffect ==
    /\ NotificationFrame(SCN_SAVEPOINTLEFT(St), TRUE)
    /\ NotificationFrame(SCN_SAVEPOINTREACHED(St), FALSE)

\* The first edit of the second of two documents: the notification made it
\* dirty, and label and title carry the mark.
C5_Witness ==
    /\ last.op = "edit"
    /\ Len(tabs) = 2
    /\ active_idx = 1
    /\ tabs[2].dirty
    /\ ~ tabs[1].dirty
    /\ tab_items[2][1] = "*"
    /\ title[1] = "*"

\* The state s after a save whose write failed, against the state before.
NothingSaved(s) ==
    /\ s.tabs = tabs
    /\ s.sci_views = sci_views
    /\ s.wrote = <<>>

\* C6: when std::fs::write fails, the documents (path, dirty, encoding,
\* eol) and the views (text, save point) are as before and the tab is still
\* open, for Save, Save As and the save of a dirty tab that is being closed.
C6_WriteFailure ==
    /\ \A force_dialog \in BOOLEAN, picked \in PathOpt :
          (~ force_dialog /\ active_doc(St).path # None) \/ picked # None
          => NothingSaved(handle_file_save(St, force_dialog, picked, FALSE))
    /\ \A picked \in PathOpt :
          (active_doc(St).dirty /\ (active_doc(St).path # None \/ picked # None))
          => NothingSaved(handle_close_tab(St, active_idx, "IDYES", picked, FALSE))

\* A dirty document with a path, next to another tab: the write of a Save
\* and the write of the save before a close fail, and nothing has changed.
C6_Witness ==
    /\ Len(tabs) = 2
    /\ active_doc(St).dirty
    /\ active_doc(St).path # None
    /\ ~ AtSavePoint(At(sci_views, active_idx))
    /\ handle_file_save(St, FALSE, None, FALSE) = St
    /\ handle_close_tab(St, active_idx, "IDYES", None, FALSE) = St

\* The state s after a successful save of the active document to path.
SavedFrame(s, path) ==
    /\ s.wrote = << <<path, encode_for_disk(active_doc(St).encoding,
                                            ViewText(At(sci_views, active_idx)))>> >>
    /\ active_doc(s).path = path
    /\ ~ active_doc(s).dirty
    /\ AtSavePoint(At(s.sci_views, active_idx))
    /\ active_doc(s).encoding = active_doc(St).encoding
    /\ active_doc(s).eol = active_doc(St).eol
    /\ s.active_idx = active_idx
    /\ Len(s.tabs) = Len(tabs)
    /\ Len(s.sci_views) = Len(sci_views)
    /\ \A i \in 1 .. Len(tabs) :
          i # active_idx + 1 => s.tabs[i] = tabs[i] /\ s.sci_views[i] = sci_views[i]

\* C7: a successful Save or Save As writes encode_for_disk(encoding, text of
\* the active view) to the chosen path, and nothing else; the document gets
\* that path and is clean, the view is at its save point; encoding, eol and
\* the other tabs are as before.
C7_SuccessfulSave ==
    \A force_dialog \in BOOLEAN, picked \in PathOpt :
        LET ask == force_dialog \/ active_doc(St).path = None
        IN  (ask => picked # None)
            => SavedFrame(handle_file_save(St, force_dialog, picked, TRUE),
                          IF ask THEN picked ELSE active_doc(St).path)

\* A UTF-16 LE document whose text is "x" was saved: the file holds the
\* BOM and the code unit 78 00, the document is clean at its save point.
C7_Witness ==
    /\ last.op = "save"
    /\ last.wrote = << <<PathOf(1), <<255, 254, 120, 0>>>> >>
    /\ active_doc(St).encoding = Utf16Le
    /\ active_doc(St).path = PathOf(1)
    /\ ~ active_doc(St).dirty
    /\ AtSavePoint(At(sci_views, active_idx))

\* The close request was refused: s is the state before.
CloseRefused(s) ==
    /\ s.tabs = tabs
    /\ s.sci_views = sci_views
    /\ s.active_idx = active_idx

\* The tab was closed: removed, or reset to untitled when it was the only one.
TabClosed(s) ==
    IF Len(tabs) = 1
    THEN Len(s.tabs) = 1 /\ s.tabs[1].path = None /\ ~ s.tabs[1].dirty
    ELSE Len(s.tabs) = Len(tabs) - 1 /\ Len(s.sci_views) = Len(sci_views) - 1

\* C8: a close request for a dirty tab leaves tabs, views and active_idx as
\* they are when the user answers Cancel, cancels the Save As picker, or the
\* write fails; the tab is closed after Discard, and after Save only with
\* the file written.
C8_DirtyClose ==
    active_doc(St).dirty =>
        \A answer \in {"IDYES", "IDNO", "IDCANCEL"}, picked \in PathOpt,
           write_ok \in BOOLEAN :
            LET s == handle_close_tab(St, active_idx, answer, picked, write_ok)
                saved == /\ answer = "IDYES"
                         /\ write_ok
                         /\ (active_doc(St).path # None \/ picked # None)
            IN  /\ ~ (answer = "IDNO" \/ saved) => CloseRefused(s)
                /\ answer = "IDNO" => TabClosed(s) /\ s.wrote = <<>>
                /\ saved => TabClosed(s) /\ s.wrote # <<>>

\* The second of two dirty tabs was closed after its Save succeeded; the
\* tab that is left is dirty, and Cancel on its close request leaves it.
C8_Witness ==
    /\ last.op = "close"
    /\ last.count = 2
    /\ last.answer = "IDYES"
    /\ last.wrote # <<>>
    /\ Len(tabs) = 1
    /\ tabs[1].dirty
    /\ handle_close_tab(St, active_idx, "IDCANCEL", None, TRUE) = St

\* C9: File > Open of a path that the tab at index j has creates no tab and
\* loads nothing: the documents and the views' contents are as before,
\* active_idx is j and view j is the one shown.
C9_OpenDuplicate ==
    \A picked \in Paths, read \in SampleFiles \cup {ReadErr}, view_ok \in BOOLEAN :
        LET j == PositionOfPath(St, picked)
            s == handle_file_open(St, picked, read, view_ok)
        IN  j >= 0 =>
              /\ s.tabs = tabs
              /\ Len(s.sci_views) = Len(sci_views)
              /\ s.active_idx = j
              /\ \A i \in 1 .. Len(sci_views) :
                    /\ s.sci_views[i].visible <=> (i = j + 1)
                    /\ [s.sci_views[i] EXCEPT !.visible = FALSE]
                         = [sci_views[i] EXCEPT !.visible = FALSE]

\* File > Open picked the path of the other tab: that tab became active,
\* no file was read.
C9_Witness ==
    /\ last.op = "open"
    /\ ~ last.read_ok
    /\ Len(tabs) = 2
    /\ active_doc(St).path = last.picked
    /\ At(sci_views, active_idx).visible

\* C10: after File > Open has loaded a file into a tab, the document has
\* the picked path, the encoding and EOL detected from the bytes,
\* large_file = (length > threshold) and is clean; the view holds the
\* decoded UTF-8 content and is at its save point.
C10_OpenedFile ==
    \A picked \in Paths, bytes \in SampleFiles :
        LET s == handle_file_open(St, picked, bytes, TRUE)
            doc == active_doc(s)
            view == At(s.sci_views, s.active_idx)
        IN  PositionOfPath(St, picked) < 0 =>
              /\ doc.path = picked
              /\ doc.encoding = detect_and_decode(bytes)[1]
              /\ doc.eol = detect_eol(detect_and_decode(bytes)[2])
              /\ doc.large_file = (Len(bytes) > LARGE_FILE_THRESHOLD_BYTES)
              /\ ~ doc.dirty
              /\ ViewText(view) = detect_and_decode(bytes)[2]
              /\ AtSavePoint(view)

\* C11: when std::fs::read fails for the file picked in File > Open (the
\* path is not open in any tab, so the read is attempted), the whole window
\* state is as before: no tab is added, no document or view is modified,
\* active_idx is the same.
C11_ReadFailure ==
    \A picked \in Paths, view_ok \in BOOLEAN :
        PositionOfPath(St, picked) < 0
        => handle_file_open(St, picked, ReadErr, view_ok) = St

\* Two untitled tabs, the active one edited (so File > Open would add a
\* third tab): the read of the picked file fails and nothing has changed.
C11_Witness ==
    /\ Len(tabs) = 2
    /\ active_doc(St).dirty
    /\ PositionOfPath(St, PathOf(1)) < 0
    /\ handle_file_open(St, PathOf(1), ReadErr, TRUE) = St
    /\ handle_file_open(St, PathOf(1), FileSeq[1], TRUE) # St

\* C12: for n >= 2 tabs, any active index a and any idx, removing tab idx
\* leaves the other n - 1 tabs in order and a valid active_idx: a - 1 when
\* idx < a, a when idx > a, n - 2 when the last tab is active and removed
\* (so 3 tabs, a = 1, idx = 1 gives 2 tabs and active_idx <= 1).
C12_RemoveTab ==
    Len(tabs) >= 2 =>
        \A idx \in 0 .. Len(tabs) - 1 :
            LET s == RemoveTab(St, idx)
                n == Len(tabs)
                a == active_idx
            IN  /\ s.tabs = RemoveAt(tabs, idx)
                /\ Len(s.tabs) = n - 1
                /\ s.active_idx >= 0
                /\ s.active_idx < n - 1
                /\ idx < a => s.active_idx = a - 1
                /\ idx > a => s.active_idx = a
                /\ (idx = a /\ a = n - 1) => s.active_idx = n - 2

\* Three tabs with the middle one active, and the middle one was removed:
\* two tabs are left and the active index is 1, the former third tab.
C12_Witness ==
    /\ last.op = "remove_tab"
    /\ last.n = 3
    /\ last.a = 1
    /\ last.idx = 1
    /\ Len(tabs) = 2
    /\ active_idx = 1
    /\ active_doc(St).view_of = 3

\* The only tab was closed: s against the state before.
LastTabReset(s) ==
    /\ Len(s.tabs) = 1
    /\ Len(s.sci_views) = 1
    /\ s.active_idx = 0
    /\ s.tabs[1].path = None
    /\ s.tabs[1].encoding = Utf8
    /\ s.tabs[1].eol = Crlf
    /\ ~ s.tabs[1].dirty
    /\ ~ s.tabs[1].large_file
    /\ ~ s.tabs[1].word_wrap
    /\ s.sci_views[1].hwnd = sci_views[1].hwnd
    /\ ViewText(s.sci_views[1]) = <<>>
    /\ AtSavePoint(s.sci_views[1])

\* C13: when the only tab is closed (it was clean, the user chose Discard,
\* or chose Save and the file was written), one tab and one view are left:
\* the document is untitled, UTF-8, CRLF, clean, not large-file, word wrap
\* off; the view is the same window, empty and at its save point;
\* active_idx is 0.
C13_CloseLastTab ==
    Len(tabs) = 1 =>
        \A answer \in {"IDYES", "IDNO", "IDCANCEL"}, picked \in PathOpt,
           write_ok \in BOOLEAN :
            (\/ ~ tabs[1].dirty
             \/ answer = "IDNO"
             \/ answer = "IDYES" /\ write_ok /\ (tabs[1].path # None \/ picked # None))
            => LastTabReset(handle_close_tab(St, 0, answer, picked, write_ok))

\* The only tab held an edited UTF-16 LE file and was closed with Save: the
\* file was written with its BOM, and the tab is now an untitled UTF-8
\* document over the same, emptied view.
C13_Witness ==
    /\ last.op = "close"
    /\ last.count = 1
    /\ last.answer = "IDYES"
    /\ last.wrote # <<>>
    /\ last.wrote[1][2][1] = 255
    /\ LastTabReset(St)
    /\ Len(sci_views[1].hist) > 1

\* C14: when new_scintilla_view fails, File > New and File > Open into a new
\* tab change nothing: tabs, sci_views (so also which view is shown) and
\* active_idx are as before the request.
C14_ViewCreationFailure ==
    /\ open_untitled_tab(St, FALSE) = St
    /\ handle_new_file(St, FALSE) = St
    /\ \A picked \in Paths, bytes \in SampleFiles :
          /\ open_file_in_new_tab(St, picked, bytes, FALSE) = St
          /\ (PositionOfPath(St, picked) < 0 /\ ~ UntitledClean(active_doc(St)))
             => handle_file_open(St, picked, bytes, FALSE) = St

\* An edited untitled tab is active and the picked file is not open, so
\* File > New and File > Open both ask for a new view: with the view they
\* add a tab, without it they leave the window as it is.
C14_Witness ==
    /\ ~ UntitledClean(active_doc(St))
    /\ PositionOfPath(St, PathOf(1)) < 0
    /\ Len(handle_new_file(St, TRUE).tabs) = Len(tabs) + 1
    /\ Len(handle_file_open(St, PathOf(1), FileSeq[1], TRUE).tabs) = Len(tabs) + 1
    /\ handle_new_file(St, FALSE) = St
    /\ handle_file_open(St, PathOf(1), FileSeq[1], FALSE) = St

\* The occurrences of the needle in the text as it stands, scanning left to
\* right from offset from without overlap, replaced: [count, text], text
\* being the result from offset from on.
RECURSIVE Replaced(_, _, _, _, _)
Replaced(text, from, needle, repl, flags) ==
    LET q == FindText(text, from, Len(text), needle, flags)
        rest == Replaced(text, q + Len(needle), needle, repl, flags)
    IN  IF q < 0 THEN [count |-> 0, text |-> SubSeq(text, from + 1, Len(text))]
        ELSE [count |-> rest.count + 1,
              text |-> SubSeq(text, from + 1, q) \o repl \o rest.text]

ReplaceAllAgrees(find, repl, flags) ==
    /\ replace_all(sci, find, repl, flags).count
         = Replaced(sci.text, 0, find, repl, flags).count
    /\ replace_all(sci, find, repl, flags).sv.text
         = Replaced(sci.text, 0, find, repl, flags).text

\* C15 as stated: for every document, non-empty needle and replacement,
\* under every setting of the search flags, replace_all returns the number
\* of non-overlapping occurrences of the needle in the document, scanning
\* left to right from offset 0, and leaves the document with exactly those
\* occurrences replaced.
C15_ReplaceAll ==
    \A find \in Needles, repl \in Replacements, flags \in SearchFlags :
        ReplaceAllAgrees(find, repl, flags)

\* C15, amended: the same for searches without SCFIND_WHOLEWORD (with or
\* without SCFIND_MATCHCASE).
C15_ReplaceAllNoWholeWord ==
    \A find \in Needles, repl \in Replacements, flags \in SearchFlags :
        ~ HasFlag(flags, SCFIND_WHOLEWORD) => ReplaceAllAgrees(find, repl, flags)

\* "cat cat cat" with "cat" replaced by "dog": three replacements.
C15_Witness ==
    /\ last.op = "replace_all"
    /\ last.count = 3
    /\ sci.text = <<100, 111, 103, 32, 100, 111, 103, 32, 100, 111, 103>>

\* The positions in lo .. hi of the searched view at which the needle
\* matches with the whole match inside [lo, hi).
Hits(lo, hi, find, flags) ==
    { q \in lo .. hi - Len(find) : MatchesAt(sci.text, q, find, flags) }

\* find_next returned r: the match at q is selected, or nothing was found
\* and the selection is as before (q = -1); the text is as before.
FindResult(r, q, find) ==
    /\ r.sv.text = sci.text
    /\ r.found = (q >= 0)
    /\ IF q >= 0
       THEN selection_start(r.sv) = q /\ selection_end(r.sv) = q + Len(find)
       ELSE r.sv.anchor = sci.anchor /\ r.sv.caret = sci.caret

First(S) == IF S = {} THEN -1 ELSE CHOOSE q \in S : \A r \in S : q <= r
Last(S) == IF S = {} THEN -1 ELSE CHOOSE q \in S : \A r \in S : q >= r

\* C16: forward find_next with selection [s, e) in a document of length n
\* selects the earliest match wholly within [e, n) and returns true; if
\* there is none, the earliest match wholly within [0, s) and returns true;
\* if there is none either, it returns false.
C16_FindForward ==
    \A find \in Needles, flags \in SearchFlags :
        FindResult(find_next(sci, find, flags, TRUE),
                   IF Hits(selection_end(sci), doc_len(sci), find, flags) # {}
                   THEN First(Hits(selection_end(sci), doc_len(sci), find, flags))
                   ELSE First(Hits(0, selection_start(sci), find, flags)),
                   find)

\* "a..." with "." selected at [2, 3): the search for "a" found nothing up
\* to the end, wrapped, and selected the "a" at the start.
C16_Witness ==
    /\ last.op = "find_next"
    /\ last.forward
    /\ last.found
    /\ last.sel = <<2, 3>>
    /\ sci.text = <<97, 46, 46, 46>>
    /\ selection_start(sci) = 0
    /\ selection_end(sci) = 1

\* C17: backward find_next with selection [s, e) in a document of length n
\* selects the last match wholly within [0, s) and returns true; if there
\* is none, the last match wholly within [e, n) and returns true; if there
\* is none either, it returns false.
C17_FindBackward ==
    \A find \in Needles, flags \in SearchFlags :
        FindResult(find_next(sci, find, flags, FALSE),
                   IF Hits(0, selection_start(sci), find, flags) # {}
                   THEN Last(Hits(0, selection_start(sci), find, flags))
                   ELSE Last(Hits(selection_end(sci), doc_len(sci), find, flags)),
                   find)

\* "aa.." with the last "." selected: the backward search for "a" selected
\* the second "a", the match nearest to the selection, not the first.
C17_Witness ==
    /\ last.op = "find_next"
    /\ ~ last.forward
    /\ last.found
    /\ last.sel = <<3, 4>>
    /\ sci.text = <<97, 97, 46, 46>>
    /\ selection_start(sci) = 1
    /\ selection_end(sci) = 2

\* The selection of the searched view is exactly one match of the needle.
SelectionIsMatch(find, flags) ==
    /\ selection_end(sci) - selection_start(sci) = Len(find)
    /\ MatchesAt(sci.text, selection_start(sci), find, flags)

\* C18: replace_one modifies the text only when the selection is exactly a
\* match of the needle; when the selection is empty or is not exactly one
\* match (it may contain one), the text is left as it is and only the
\* find_next step is performed.
C18_ReplaceOnlyExactSelection ==
    \A find \in Needles, repl \in Replacements, flags \in SearchFlags,
       forward \in BOOLEAN :
        SelectionIsMatch(find, flags)
        \/ /\ handle_replace_once(sci, find, repl, flags, forward).text = sci.text
           /\ handle_replace_once(sci, find, repl, flags, forward).anchor
                = find_next(sci, find, flags, forward).sv.anchor
           /\ handle_replace_once(sci, find, repl, flags, forward).caret
                = find_next(sci, find, flags, forward).sv.caret

\* The data are a well-formed snapshot: a JSON object with version, tabs
\* and active_tab of the right types, and dark_mode and tab_position of the
\* right types where present.
WellFormed(d) ==
    /\ d.json
    /\ d.version.type = "number" /\ d.version.num >= 0
    /\ d.tabs.type = "array"
    /\ \A i \in 1 .. Len(d.tabs.items) : d.tabs.items[i] \in PathOpt
    /\ d.active_tab.type = "number" /\ d.active_tab.num >= 0
    /\ d.dark_mode.type \in {"absent", "bool"}
    /\ \/ d.tab_position.type = "absent"
       \/ d.tab_position.type = "number" /\ d.tab_position.num \in 0 .. 255

\* The store holds a readable, well-formed snapshot of the current version.
GoodStore ==
    /\ session_store.appdata
    /\ session_store.file.kind = "data"
    /\ WellFormed(session_store.file.data)
    /\ session_store.file.data.version.num = SESSION_VERSION

\* C19: load returns None when the store location is unavailable, the file
\* is missing or unreadable, the data do not parse, or the parsed version is
\* not the current one; it returns Some only for a well-formed snapshot of
\* the current version, and then every field is filled from the file.
C19_LoadFailsOpen ==
    last.op = "load" =>
        IF GoodStore
        THEN /\ Len(last.result) = 1
             /\ DOMAIN last.result[1]
                  = {"version", "tabs", "active_tab", "dark_mode", "tab_position"}
             /\ last.result[1].version = SESSION_VERSION
             /\ last.result[1].tabs = session_store.file.data.tabs.items
             /\ last.result[1].active_tab = session_store.file.data.active_tab.num
             /\ last.result[1].dark_mode = (session_store.file.data.dark_mode = JBool(TRUE))
             /\ last.result[1].tab_position
                  = (IF session_store.file.data.tab_position.type = "absent" THEN 0
                     ELSE session_store.file.data.tab_position.num)
        ELSE last.result = None

\* A well-formed snapshot with version 99 was read: load returned None.
C19_Witness ==
    /\ last.op = "load"
    /\ last.result = None
    /\ session_store.appdata
    /\ session_store.file.kind = "data"
    /\ WellFormed(session_store.file.data)
    /\ session_store.file.data.version = JNumber(99)

\* C20: a snapshot of the current version without the dark_mode field is
\* accepted by load and yields dark_mode = false.
C20_DarkModeDefault ==
    (last.op = "load" /\ GoodStore
        /\ session_store.file.data.dark_mode.type = "absent")
    => (last.result # None /\ last.result[1].dark_mode = FALSE)

\* {"version":1,"tabs":[],"active_tab":0} was loaded.
C20_Witness ==
    /\ last.op = "load"
    /\ session_store.appdata
    /\ session_store.file.kind = "data"
    /\ session_store.file.data
         = [json |-> TRUE, version |-> JNumber(1), tabs |-> JArray(<<>>),
            active_tab |-> JNumber(0), dark_mode |-> Absent, tab_position |-> Absent]
    /\ last.result
         = <<[version |-> 1, tabs |-> <<>>, active_tab |-> 0, dark_mode |-> FALSE,
              tab_position |-> 0]>>

\* The window as create_child_controls and App::new leave it.
FreshWindow ==
    /\ tabs = <<new_untitled(1)>>
    /\ sci_views = <<[NewView(1) EXCEPT !.visible = TRUE]>>
    /\ active_idx = 0

\* Entry i of the restored snapshot has a path that exists and was read.
Readable(i) == last.loaded[1].tabs[i] # None /\ last.read_ok[i]
\* Entry i was readable and a view was there for it: the first readable
\* entry uses the initial view, a later one needs a new view.
Opened(i) ==
    /\ Readable(i)
    /\ (\E j \in 1 .. i - 1 : Readable(j)) => last.view_ok[i]
\* The paths of the entries of the restored snapshot that satisfy Keep, in
\* snapshot order.
KeptPaths(Keep(_)) ==
    LET n == Len(last.loaded[1].tabs)
        kept == SelectSeq([i \in 1 .. n |-> i], Keep)
    IN  [k \in 1 .. Len(kept) |-> last.loaded[1].tabs[kept[k]]]
\* After restore_session the window holds exactly the documents R: one clean
\* tab and one view each, the first in the initial tab and view.
RestoredExactly(R) ==
    IF last.loaded = NoSession \/ R = <<>> THEN FreshWindow
    ELSE /\ Len(tabs) = Len(R)
         /\ Len(sci_views) = Len(R)
         /\ \A k \in 1 .. Min(Len(tabs), Len(R)) :
                tabs[k].path = R[k] /\ ~ tabs[k].dirty
         /\ tabs[1].view_of = 1
         /\ sci_views[1].hwnd = 1

C22_ActiveTabClamped ==
    (last.op = "restore" /\ last.loaded # NoSession /\ tabs[1].path # None)
    => /\ active_idx = Min(last.loaded[1].active_tab, Len(tabs) - 1)
       /\ \A i \in 1 .. Len(sci_views) : sci_views[i].visible = (i = active_idx + 1)

\* A snapshot with active_tab = 2 restored two tabs: the index was clamped
\* to 1 and the second view is the visible one.
C22_Witness ==
    /\ last.op = "restore"
    /\ last.loaded # NoSession
    /\ last.loaded[1].active_tab = 2
    /\ Len(tabs) = 2
    /\ tabs[1].path # None
    /\ active_idx = 1
    /\ ~ sci_views[1].visible
    /\ sci_views[2].visible

C24_SavedBeforeDestroy ==
    phase = "destroyed" => last.saved

\* C25: detect_and_decode yields a result for every byte sequence, applying
\* its checks in a fixed order, the first match winning: leading FF FE gives
\* Utf16LE; else leading FE FF gives Utf16BE; else leading EF BB BF gives
\* Utf8 with the marker stripped; else valid UTF-8 gives Utf8 with the bytes
\* unchanged; else Ansi with the bytes unchanged.
C25_DetectOrder ==
    last.op = "decode" =>
        /\ last.encoding \in {Utf16Le, Utf16Be, Utf8, Ansi}
        /\ last.utf8 \in Seq(0 .. 255)
        /\ IF Len(last.bytes) >= 2 /\ last.bytes[1] = 255 /\ last.bytes[2] = 254
           THEN last.encoding = Utf16Le
           ELSE IF Len(last.bytes) >= 2 /\ last.bytes[1] = 254 /\ last.bytes[2] = 255
           THEN last.encoding = Utf16Be
           ELSE IF Len(last.bytes) >= 3 /\ last.bytes[1] = 239 /\ last.bytes[2] = 187
                   /\ last.bytes[3] = 191
           THEN /\ last.encoding = Utf8
                /\ last.utf8 = [i \in 1 .. Len(last.bytes) - 3 |-> last.bytes[i + 3]]
           ELSE IF from_utf8_is_ok(last.bytes)
           THEN last.encoding = Utf8 /\ last.utf8 = last.bytes
           ELSE last.encoding = Ansi /\ last.utf8 = last.bytes

\* EF BB BF "hello", itself valid UTF-8, was decoded: Utf8, "hello".
C25_Witness ==
    /\ last.op = "decode"
    /\ last.bytes = <<239, 187, 191, 104, 101, 108, 108, 111>>
    /\ from_utf8_is_ok(last.bytes)
    /\ last.encoding = Utf8
    /\ last.utf8 = <<104, 101, 108, 108, 111>>

\* The 16-bit units of the bytes after a 2-byte byte-order mark (le: low
\* byte first).
UnitAt(b, k, le) ==
    IF le THEN b[2 * k + 1] + 256 * b[2 * k + 2] ELSE 256 * b[2 * k + 1] + b[2 * k + 2]
\* b, a byte-order mark and a payload, has no malformed 16-bit sequence:
\* the payload is whole units, every high surrogate is followed by a low
\* one and every low surrogate follows a high one.
NoMalformedUnits(b, le) ==
    /\ Len(b) % 2 = 0
    /\ \A k \in 1 .. (Len(b) \div 2) - 1 :
          /\ (UnitAt(b, k, le) \in 55296 .. 56319)
               => /\ k + 1 <= (Len(b) \div 2) - 1
                  /\ UnitAt(b, k + 1, le) \in 56320 .. 57343
          /\ (UnitAt(b, k, le) \in 56320 .. 57343)
               => /\ k - 1 >= 1
                  /\ UnitAt(b, k - 1, le) \in 55296 .. 56319

\* C26: with (e, u) = detect_and_decode(b): if e is Utf8 or Ansi then
\* encode_for_disk(e, u) = b, always; if e is Utf16LE or Utf16BE then
\* encode_for_disk(e, u) = b whenever b has no malformed 16-bit sequence.
C26_RoundTrip ==
    last.op = "encode" =>
        /\ last.encoding \in {Utf8, Ansi} => last.disk = last.bytes
        /\ (last.encoding \in {Utf16Le, Utf16Be}
            /\ NoMalformedUnits(last.bytes, last.encoding = Utf16Le))
           => last.disk = last.bytes

\* The counts of a forward scan: a CR followed by LF is one CRLF, any other
\* CR is a CR, an LF not preceded by CR is an LF.
CrlfCount(u) == Cardinality({ i \in 1 .. Len(u) - 1 : u[i] = 13 /\ u[i + 1] = 10 })
CrCount(u) ==
    Cardinality({ i \in 1 .. Len(u) : u[i] = 13 /\ (i = Len(u) \/ u[i + 1] # 10) })
LfCount(u) ==
    Cardinality({ i \in 1 .. Len(u) : u[i] = 10 /\ (i = 1 \/ u[i - 1] # 13) })

\* C27: detect_eol returns CRLF if the CRLF count is >= both others, else
\* LF if the LF count is >= the CR count, else CR, each "\r\n" counting once
\* and as CRLF only; text without a line ending yields CRLF.
C27_DetectEol ==
    last.op = "detect_eol" =>
        last.eol = (IF CrlfCount(last.utf8) >= LfCount(last.utf8)
                       /\ CrlfCount(last.utf8) >= CrCount(last.utf8) THEN Crlf
                    ELSE IF LfCount(last.utf8) >= CrCount(last.utf8) THEN Lf
                    ELSE Cr)

\* "a\r\nb\r\nc\n": 2 CRLF against 1 LF (3 LF bytes) gave CRLF.
C27_Witness ==
    /\ last.op = "detect_eol"
    /\ last.utf8 = <<97, 13, 10, 98, 13, 10, 99, 10>>
    /\ last.eol = Crlf

\* The title for a path and a dirty flag: "Rivet" when untitled and clean,
\* otherwise the dirty marker, the file name ("Untitled" without a path),
\* the dash and the application name.
TitleFor(path, dirty) ==
    IF path = None
    THEN IF dirty THEN <<"*", <<"Untitled">>, "-", "Rivet">> ELSE <<"Rivet">>
    ELSE <<IF dirty THEN "*" ELSE "", file_name(path), "-", "Rivet">>

\* C28: the displayed title is TitleFor(path, dirty) of the active document
\* after every handler.
C28_TitleOfActiveDocument ==
    title = TitleFor(tabs[active_idx + 1].path, tabs[active_idx + 1].dirty)

\* A document with a path was edited: the title shows the marker and the
\* file name.
C28_Witness ==
    /\ last.op = "edit"
    /\ tabs[active_idx + 1].path # None
    /\ tabs[active_idx + 1].dirty
    /\ title = <<"*", file_name(tabs[active_idx + 1].path), "-", "Rivet">>

\* C29: whenever no handler is running, exactly one view is visible and it
\* is sci_views[active_idx].
C29_OneVisibleView ==
    \A i \in 1 .. Len(sci_views) : sci_views[i].visible = (i = active_idx + 1)

\* The user switched from the second tab to the first: the second view was
\* hidden and the first shown.
C29_Witness ==
    /\ last.op = "switch"
    /\ Len(sci_views) = 2
    /\ active_idx = 0
    /\ sci_views[1].visible
    /\ ~ sci_views[2].visible

\* File > New returned r: exactly one document, untitled, UTF-8, CRLF,
\* clean, and one new view were appended at index = the previous tab count;
\* the new tab is active and every existing document is as before.
NewTabAppended(r) ==
    /\ Len(r.tabs) = Len(tabs) + 1
    /\ Len(r.sci_views) = Len(sci_views) + 1
    /\ r.tabs[Len(tabs) + 1].path = None
    /\ r.tabs[Len(tabs) + 1].encoding = Utf8
    /\ r.tabs[Len(tabs) + 1].eol = Crlf
    /\ ~ r.tabs[Len(tabs) + 1].dirty
    /\ r.tabs[Len(tabs) + 1].view_of = r.sci_views[Len(tabs) + 1].hwnd
    /\ \A i \in 1 .. Len(sci_views) :
          r.sci_views[i].hwnd # r.sci_views[Len(tabs) + 1].hwnd
    /\ r.active_idx = Len(tabs)
    /\ \A i \in 1 .. Len(tabs) : r.tabs[i] = tabs[i]

\* C30 as stated: File > New is a no-op when the active document is untitled
\* and clean; otherwise it appends one fresh document and one new view and
\* activates them.
C30_FileNew ==
    \A view_ok \in BOOLEAN :
        IF UntitledClean(active_doc(St))
        THEN handle_new_file(St, view_ok) = St
        ELSE NewTabAppended(handle_new_file(St, view_ok))

\* C30, amended: it is a no-op also when the new view cannot be created.
C30_FileNewViewCreated ==
    \A view_ok \in BOOLEAN :
        IF UntitledClean(active_doc(St)) \/ ~ view_ok
        THEN handle_new_file(St, view_ok) = St
        ELSE NewTabAppended(handle_new_file(St, view_ok))

\* File > New on a dirty untitled document: a second tab, active, fresh;
\* the first document is still dirty.
C30_Witness ==
    /\ last.op = "new"
    /\ Len(tabs) = 2
    /\ Len(sci_views) = 2
    /\ active_idx = 1
    /\ tabs[1].dirty
    /\ tabs[2] = new_untitled(2)

\* The tabs 0 .. n - 1 of st in r: same DocumentState, same view content.
OtherTabsKept(st, r, skip) ==
    \A i \in 1 .. Len(st.tabs) :
        i # skip + 1 =>
          /\ r.tabs[i] = st.tabs[i]
          /\ [r.sci_views[i] EXCEPT !.visible = FALSE]
               = [st.sci_views[i] EXCEPT !.visible = FALSE]

\* The file went into the active tab of st; the tab count is the same.
LoadedInPlace(st, r, picked) ==
    /\ Len(r.tabs) = Len(st.tabs)
    /\ r.active_idx = st.active_idx
    /\ active_doc(r).path = picked
    /\ OtherTabsKept(st, r, st.active_idx)

\* One tab holding the file was appended to st and is active.
LoadedInNewTab(st, r, picked) ==
    /\ Len(r.tabs) = Len(st.tabs) + 1
    /\ Len(r.sci_views) = Len(st.sci_views) + 1
    /\ r.active_idx = Len(st.tabs)
    /\ active_doc(r).path = picked
    /\ OtherTabsKept(st, r, Len(st.tabs))

SearchCall(calls, k) == calls[2 * k]
ReplaceCall(calls, k) == calls[2 * k + 1]

\* One replace_all that made these calls and returned count on a text with
\* hits matches: count + 1 searches, at most hits + 1; each replacement is
\* at or after the scan position, the next search starts where the inserted
\* text ends and has strictly less text left to scan.
ScanAdvances(calls, count, hits) ==
    /\ CallsOf(calls, "search_in_target") = count + 1
    /\ count <= hits
    /\ Len(calls) = 2 * count + 3
    /\ SearchCall(calls, 1).pos = 0
    /\ \A k \in 1 .. count + 1 :
          /\ SearchCall(calls, k).op = "search_in_target"
          /\ SearchCall(calls, k).pos <= SearchCall(calls, k).len
    /\ \A k \in 1 .. count :
          /\ ReplaceCall(calls, k).op = "replace_target"
          /\ ReplaceCall(calls, k).pos >= SearchCall(calls, k).pos
          /\ SearchCall(calls, k + 1).pos
               = ReplaceCall(calls, k).pos + ReplaceCall(calls, k).len
          /\ SearchCall(calls, k + 1).len - SearchCall(calls, k + 1).pos
               < SearchCall(calls, k).len - SearchCall(calls, k).pos

\* C32: for every document, non-empty needle and replacement (also one that
\* is empty or contains the needle) replace_all terminates: each search
\* starts at match_start + replacement length of the replacement before it,
\* so inserted text is not searched, the text left to scan shrinks with
\* every iteration, and there are at most (matches in the original text) + 1
\* iterations.
C32_ReplaceAllTerminates ==
    \A find \in Needles, repl \in Replacements, flags \in SearchFlags :
        LET r == replace_all(sci, find, repl, flags)
        IN  ScanAdvances(r.calls, r.count,
                         Cardinality(Hits(0, Len(sci.text), find, flags)))

\* ".a.a" after two replacements and three searches: it was "aa", ".." or
\* ".a.a" and the replacement (".a", "a" or ".") contains the needle.
C32_Witness ==
    /\ last.op = "replace_all"
    /\ last.count = 2
    /\ last.searches = 3
    /\ sci.text = <<46, 97, 46, 97>>

\* The calls of one replace_all that returned count: one begin_undo_action,
\* first; one end_undo_action, last; count replacements, all in between, so
\* no undo group is left open and the replacements are in one group.
OneUndoGroup(calls, count) ==
    /\ Len(calls) >= 3
    /\ calls[1].op = "begin_undo_action"
    /\ calls[2].op = "search_in_target"
    /\ calls[Len(calls)].op = "end_undo_action"
    /\ CallsOf(calls, "begin_undo_action") = 1
    /\ CallsOf(calls, "end_undo_action") = 1
    /\ CallsOf(calls, "replace_target") = count
    /\ \A i \in 1 .. Len(calls) :
          calls[i].op = "replace_target" => 1 < i /\ i < Len(calls) - 1

\* C33: every replace_all opens one undo group before its first search and
\* closes it once after its last replacement (and after the last search),
\* also with zero matches; all its replacements are inside the group.
C33_OneUndoGroup ==
    \A find \in Needles, repl \in Replacements, flags \in SearchFlags :
        LET r == replace_all(sci, find, repl, flags)
        IN  OneUndoGroup(r.calls, r.count)

\* A replace_all that found nothing in "aaaa": the group was opened and
\* closed around the one search.
C33_Witness ==
    /\ last.op = "replace_all"
    /\ last.count = 0
    /\ last.searches = 1
    /\ last.begun = 1
    /\ last.ended = 1
    /\ sci.text = <<97, 97, 97, 97>>

\* The tab at idx, not the active one, was removed from the window and s is
\* the result: the active document and its view are the ones from before,
\* at the adjusted index, and no other view is shown.
ActiveDocumentKept(s, idx) ==
    /\ s.active_idx = (IF idx < active_idx THEN active_idx - 1 ELSE active_idx)
    /\ active_doc(s) = active_doc(St)
    /\ At(s.sci_views, s.active_idx).hwnd = At(sci_views, active_idx).hwnd
    /\ \A i \in 1 .. Len(s.sci_views) :
          s.sci_views[i].visible = (i = s.active_idx + 1)

C35_NoDuplicatePath ==
    \A i \in 1 .. Len(tabs), j \in 1 .. Len(tabs) :
        (i # j /\ tabs[i].path # None) => tabs[i].path # tabs[j].path

\* C36: for every tab, DocumentState.word_wrap is the wrap state last
\* applied to its view, and for the active tab it is the View > Word Wrap
\* checkmark.
C36_WordWrapConsistent ==
    /\ \A i \in 1 .. Len(tabs) : tabs[i].word_wrap = sci_views[i].wrap
    /\ active_doc(St).word_wrap = wrap_check

\* C37: find_next reports a miss only when the document holds no occurrence
\* of the needle: with at least one occurrence it returns true and the
\* selection is an occurrence, for every selection and either direction.
C37_MissOnlyWithoutOccurrence ==
    \A find \in Needles, flags \in SearchFlags, forward \in BOOLEAN :
        Hits(0, doc_len(sci), find, flags) # {}
        => /\ find_next(sci, find, flags, forward).found
           /\ selection_start(find_next(sci, find, flags, forward).sv)
                \in Hits(0, doc_len(sci), find, flags)
           /\ selection_end(find_next(sci, find, flags, forward).sv)
                = selection_start(find_next(sci, find, flags, forward).sv) + Len(find)

\* C38: if the snapshot's active entry has a path that still exists, then
\* after the restore the active document is that file, whichever other
\* entries were skipped as untitled or missing (every view could be created).
C38_ActiveEntryRestored ==
    (/\ last.op = "restore"
     /\ last.loaded[1].active_tab < Len(last.loaded[1].tabs)
     /\ last.loaded[1].tabs[last.loaded[1].active_tab + 1] # None
     /\ last.read_ok[last.loaded[1].active_tab + 1]
     /\ \A i \in DOMAIN last.view_ok : last.view_ok[i])
    => active_doc(St).path = last.loaded[1].tabs[last.loaded[1].active_tab + 1]

\* C39: while some tab is dirty the window is destroyed only after the user
\* confirmed discarding all changes in that request.  Closing the window
\* with the prompt declined leaves the window open, the window state as it
\* was and the session file unwritten; File > Exit, which asks nothing,
\* does not destroy the window.
C39_NoDestroyWhileDirty ==
    (phase = "running" /\ \E i \in 1 .. Len(tabs) : tabs[i].dirty)
    => /\ \A outcome \in SaveOutcomes :
            /\ ~ WM_CLOSE(St, session_store, FALSE, outcome).destroyed
            /\ ~ WM_CLOSE(St, session_store, FALSE, outcome).saved
            /\ WM_CLOSE(St, session_store, FALSE, outcome).st = St
            /\ WM_CLOSE(St, session_store, FALSE, outcome).store = session_store
       /\ ~ IDM_FILE_EXIT(St, session_store).destroyed

====
